---------------------------- MODULE Spec2Model ----------------------------
(***************************************************************************)
(* Model of the scheduling core of kairos: the travel-time estimator       *)
(* (services/travel_service.py), the slot search engine                    *)
(* (services/smart_scheduler_service.py) and the suggestion rules engine   *)
(* (services/rules_engine_service.py, routes/suggestions.py).              *)
(*                                                                         *)
(* Times are minutes since midnight of day 0.  A location string is a      *)
(* sequence of one-character strings, so that normalisation and the split  *)
(* on commas are computed, not assumed.                                    *)
(***************************************************************************)
EXTENDS Integers, Sequences, FiniteSets, TLC

VARIABLES
    travel_cache,   \* TravelService._travel_cache: set of [key, value] entries
    tcall,          \* the last TravelService call and what it returned
    events,         \* the Event table
    result,         \* the last SmartSchedulerService call and what it returned
    suggestions,    \* the Suggestion table
    now,            \* the clock (datetime.now / datetime.utcnow), in minutes
    next_id,        \* next primary key of the Suggestion table
    last            \* the last suggestion operation and what it returned

vars == <<travel_cache, tcall, events, result, suggestions, now, next_id, last>>

None == "None"

\* an Optional[str] that is None: a sequence, like every other location
NoLocation == <<None>>

(***************************************************************************)
(* Strings                                                                 *)
(***************************************************************************)
\* str.lower on one character
Lower(c) ==
    CASE c = "A" -> "a"
      [] c = "B" -> "b"
      [] c = "M" -> "m"
      [] c = "P" -> "p"
      [] OTHER -> c

\* what \s matches
IsSpace(c) == c \in {" ", "\t"}

LowerStr(s) == [i \in DOMAIN s |-> Lower(s[i])]

\* str.strip
Strip(s) ==
    LET keep == {i \in DOMAIN s : ~IsSpace(s[i])}
    IN  IF keep = {} THEN <<>>
        ELSE LET lo == CHOOSE i \in keep : \A j \in keep : i <= j
                 hi == CHOOSE i \in keep : \A j \in keep : j <= i
             IN  SubSeq(s, lo, hi)

\* re.sub(r'\s+', ' ', s): every maximal run of whitespace becomes one space
RECURSIVE CollapseSpaces(_)
CollapseSpaces(s) ==
    IF s = <<>> THEN <<>>
    ELSE IF IsSpace(Head(s))
         THEN IF Len(s) >= 2 /\ IsSpace(s[2])
              THEN CollapseSpaces(Tail(s))
              ELSE <<" ">> \o CollapseSpaces(Tail(s))
         ELSE <<Head(s)>> \o CollapseSpaces(Tail(s))

\* str.split(','): the segments between commas, in order
RECURSIVE SplitComma(_)
SplitComma(s) ==
    LET commas == {i \in DOMAIN s : s[i] = ","}
    IN  IF commas = {} THEN <<s>>
        ELSE LET k == CHOOSE i \in commas : \A j \in commas : i <= j
             IN  <<SubSeq(s, 1, k - 1)>> \o SplitComma(SubSeq(s, k + 1, Len(s)))

(***************************************************************************)
(* Locations the requests and events of the model use                      *)
(***************************************************************************)
LocOfficeA == <<"m", ",", "b", ",", "p">>
LocOfficeB == <<"M", " ", ",", "A", ",", "p">>
LocNear == <<"a", ",", "b", ",", "p">>
LocParis == <<"p">>
LocParisRaw == <<" ", "P">>
LocParisF == <<"p", ",", " ", "f">>

LocationInputs ==
    {NoLocation, <<>>, LocOfficeA, LocOfficeB, LocNear, LocParis, LocParisRaw, LocParisF}

(***************************************************************************)
(* TravelService                                                           *)
(***************************************************************************)
SAME_BUILDING == 5
SAME_NEIGHBORHOOD == 15
SAME_CITY == 30
DIFFERENT_CITY == 60

\* Python truthiness of an Optional[str]
Present(loc) == loc /= NoLocation /\ loc /= <<>>

normalize_location(location) == CollapseSpaces(Strip(LowerStr(location)))

\* normalize_location tabulated over the locations of the model
Normalized == [l \in LocationInputs |-> normalize_location(l)]

estimate_travel_time_no_guard(origin, destination) ==
    LET origin_parts == SplitComma(origin)
        dest_parts == SplitComma(destination)
        no == Len(origin_parts)
        nd == Len(dest_parts)
    IN  IF Strip(origin_parts[1]) = Strip(dest_parts[1])
        THEN SAME_BUILDING
        ELSE IF no >= 3 /\ nd >= 3
                /\ Strip(origin_parts[no - 1]) = Strip(dest_parts[nd - 1])
        THEN SAME_NEIGHBORHOOD
        ELSE IF Strip(origin_parts[no]) = Strip(dest_parts[nd])
        THEN SAME_CITY
        ELSE DIFFERENT_CITY

\* TravelService._estimate_travel_time, in minutes
estimate_travel_time(origin, destination) ==
    LET origin_parts == SplitComma(origin)
        dest_parts == SplitComma(destination)
        no == Len(origin_parts)
        nd == Len(dest_parts)
    IN  IF no >= 2 /\ nd >= 2 /\ Strip(origin_parts[1]) = Strip(dest_parts[1])
        THEN SAME_BUILDING
        ELSE IF no >= 3 /\ nd >= 3
                /\ Strip(origin_parts[no - 1]) = Strip(dest_parts[nd - 1])
        THEN SAME_NEIGHBORHOOD
        ELSE IF no >= 2 /\ nd >= 2 /\ Strip(origin_parts[no]) = Strip(dest_parts[nd])
        THEN SAME_CITY
        ELSE DIFFERENT_CITY


\* _estimate_travel_time tabulated over the normalized locations of the model
Estimated ==
    [p \in {Normalized[l] : l \in LocationInputs}
            \X {Normalized[l] : l \in LocationInputs} |->
        estimate_travel_time(p[1], p[2])]

\* what the provider call of one calculate_travel_time may produce: an error or
\* no result, or a duration in minutes (0 minutes is a falsy timedelta)
ApiFail == [ok |-> FALSE, minutes |-> 0]
ApiOutcomes ==
    {ApiFail, [ok |-> TRUE, minutes |-> 0], [ok |-> TRUE, minutes |-> 20]}

\* self.use_api = use_api and api_provider and api_key, as a truth value
instance_use_api(cfg) ==
    cfg.use_api /\ cfg.api_provider /= None /\ cfg.api_key /= None

\* TravelService._calculate_via_api: None ("fail") unless the google call,
\* the only implemented provider, answers
calculate_via_api(cfg, api) ==
    IF cfg.api_provider = None \/ cfg.api_key = None THEN ApiFail
    ELSE IF cfg.api_provider = "google" THEN api
    ELSE ApiFail

CacheKey(origin, destination) == <<Normalized[origin], Normalized[destination]>>

\* a store that forgets the other entries
CachePutAlone(cache, key, value) == [k \in {key} |-> value]

CachePut(cache, key, value) ==
    [k \in DOMAIN cache \cup {key} |-> IF k = key THEN value ELSE cache[k]]

EmptyCache == [k \in {} |-> 0]

\* calculate_travel_time that takes whatever the provider path produced, with
\* no fallback on the heuristics
calculate_travel_time_no_fallback(cache, cfg, origin, destination, use_api, api) ==
    IF ~Present(origin) \/ ~Present(destination) THEN <<0, cache>>
    ELSE LET cache_key == <<Normalized[origin], Normalized[destination]>>
             should_use_api ==
                 IF use_api /= None THEN use_api = "True"
                 ELSE instance_use_api(cfg)
         IN  IF cache_key[1] = cache_key[2] THEN <<0, cache>>
             ELSE IF cache_key \in DOMAIN cache THEN <<cache[cache_key], cache>>
             ELSE IF should_use_api
                  THEN <<calculate_via_api(cfg, api).minutes,
                         CachePut(cache, cache_key,
                                  calculate_via_api(cfg, api).minutes)>>
             ELSE LET h == Estimated[cache_key]
                  IN  <<h, CachePut(cache, cache_key, h)>>

\* calculate_travel_time without its "same place, no travel" return
calculate_travel_time_no_same_place(cache, cfg, origin, destination, use_api, api) ==
    IF ~Present(origin) \/ ~Present(destination) THEN <<0, cache>>
    ELSE LET cache_key == <<Normalized[origin], Normalized[destination]>>
             should_use_api ==
                 IF use_api /= None THEN use_api = "True"
                 ELSE instance_use_api(cfg)
             travel_time ==
                 IF should_use_api THEN calculate_via_api(cfg, api) ELSE ApiFail
         IN  IF cache_key \in DOMAIN cache THEN <<cache[cache_key], cache>>
             ELSE IF travel_time.ok /\ travel_time.minutes /= 0
                  THEN <<travel_time.minutes,
                         CachePut(cache, cache_key, travel_time.minutes)>>
             ELSE LET h == Estimated[cache_key]
                  IN  <<h, CachePut(cache, cache_key, h)>>

\* calculate_travel_time whose cache hit answers "no travel"
calculate_travel_time_zero_on_hit(cache, cfg, origin, destination, use_api, api) ==
    IF ~Present(origin) \/ ~Present(destination) THEN <<0, cache>>
    ELSE LET cache_key == <<Normalized[origin], Normalized[destination]>>
         IN  IF cache_key[1] = cache_key[2] THEN <<0, cache>>
             ELSE IF cache_key \in DOMAIN cache THEN <<0, cache>>
             ELSE LET h == Estimated[cache_key]
                  IN  <<h, CachePut(cache, cache_key, h)>>

\* calculate_travel_time with a cache keyed by the origin alone
calculate_travel_time_origin_key(cache, cfg, origin, destination, use_api, api) ==
    IF ~Present(origin) \/ ~Present(destination) THEN <<0, cache>>
    ELSE LET cache_key == <<Normalized[origin], Normalized[origin]>>
         IN  IF Normalized[origin] = Normalized[destination] THEN <<0, cache>>
             ELSE IF cache_key \in DOMAIN cache THEN <<cache[cache_key], cache>>
             ELSE LET h == Estimated[<<Normalized[origin], Normalized[destination]>>]
                  IN  <<h, CachePut(cache, cache_key, h)>>

\* TravelService.calculate_travel_time: <<returned minutes, cache afterwards>>
calculate_travel_time(cache, cfg, origin, destination, use_api, api) ==
    IF ~Present(origin) \/ ~Present(destination) THEN <<0, cache>>
    ELSE LET origin_norm == Normalized[origin]
             destination_norm == Normalized[destination]
             cache_key == <<origin_norm, destination_norm>>
             should_use_api ==
                 IF use_api /= None THEN use_api = "True"
                 ELSE instance_use_api(cfg)
             travel_time ==
                 IF should_use_api THEN calculate_via_api(cfg, api) ELSE ApiFail
         IN  IF origin_norm = destination_norm THEN <<0, cache>>
             ELSE IF cache_key \in DOMAIN cache THEN <<cache[cache_key], cache>>
             ELSE IF travel_time.ok /\ travel_time.minutes /= 0
                  THEN <<travel_time.minutes,
                         CachePut(cache, cache_key, travel_time.minutes)>>
             ELSE LET h == Estimated[<<origin_norm, destination_norm>>]
                  IN  <<h, CachePut(cache, cache_key, h)>>


\* the locations of the calls that go through the cache
CacheLocations ==
    {NoLocation, <<>>, LocOfficeA, LocNear, LocParis, LocParisRaw}

\* settings.TRAVEL_API_PROVIDER / TRAVEL_API_KEY / USE_TRAVEL_API as shipped
DefaultConfig == [api_provider |-> None, api_key |-> None, use_api |-> FALSE]

\* the (instance configuration, use_api argument) pairs of the calls
CallModes ==
    { <<DefaultConfig, None>>,
      <<[api_provider |-> "google", api_key |-> "k", use_api |-> TRUE], None>>,
      <<[api_provider |-> "google", api_key |-> "k", use_api |-> TRUE], "False">>,
      <<[api_provider |-> "mapbox", api_key |-> "k", use_api |-> TRUE], None>>,
      <<DefaultConfig, "True">> }

\* the cache is unbounded in the code; the model stops adding entries here
MaxCacheEntries == 2

NoCall == [op |-> "none"]

(***************************************************************************)
(* Operations of TravelService                                             *)
(***************************************************************************)
CalculateTravelTime(mode, origin, destination, api) ==
    LET cfg == mode[1]
        use_api == mode[2]
        r == calculate_travel_time(travel_cache, cfg, origin, destination,
                                   use_api, api)
    IN  /\ Cardinality(DOMAIN r[2]) <= MaxCacheEntries
        /\ travel_cache' = r[2]
        /\ tcall' = [op |-> "calculate_travel_time",
                     origin |-> origin, destination |-> destination,
                     cfg |-> cfg, use_api |-> use_api, api |-> api,
                     value |-> r[1]]
        /\ UNCHANGED <<events, result, suggestions, now, next_id, last>>

\* TravelService.clear_cache
ClearCache ==
    /\ travel_cache' = EmptyCache
    /\ tcall' = [op |-> "clear_cache"]
    /\ UNCHANGED <<events, result, suggestions, now, next_id, last>>

InitTravel ==
    /\ travel_cache = EmptyCache
    /\ tcall = NoCall
    /\ events = {}
    /\ result = NoCall
    /\ suggestions = {}
    /\ now = 0
    /\ next_id = 1
    /\ last = NoCall

NextTravel ==
    \/ \E mode \in CallModes, origin \in CacheLocations,
          destination \in CacheLocations :
          \E api \in IF mode[1].api_provider = "google" /\ mode[2] = None
                      THEN ApiOutcomes ELSE {ApiFail} :
              CalculateTravelTime(mode, origin, destination, api)
    \/ ClearCache

SpecTravel == InitTravel /\ [][NextTravel]_vars

(***************************************************************************)
(* The heuristic on its own: every pair of inputs, estimated once through  *)
(* a fresh service with the provider disabled                              *)
(***************************************************************************)
EstimateRequest(origin, destination) ==
    /\ tcall.op = "request"
    /\ tcall.origin = origin
    /\ tcall.destination = destination
    /\ LET r == calculate_travel_time(travel_cache, DefaultConfig, origin,
                                      destination, None, ApiFail)
       IN  /\ travel_cache' = r[2]
           /\ tcall' = [op |-> "calculate_travel_time",
                        origin |-> origin, destination |-> destination,
                        cfg |-> DefaultConfig, use_api |-> None, api |-> ApiFail,
                        value |-> r[1]]
    /\ UNCHANGED <<events, result, suggestions, now, next_id, last>>

InitEstimate ==
    /\ travel_cache = EmptyCache
    /\ tcall \in {[op |-> "request", origin |-> o, destination |-> d] :
                    o \in LocationInputs, d \in LocationInputs}
    /\ events = {}
    /\ result = NoCall
    /\ suggestions = {}
    /\ now = 0
    /\ next_id = 1
    /\ last = NoCall

NextEstimate ==
    \E origin \in LocationInputs, destination \in LocationInputs :
        EstimateRequest(origin, destination)

SpecEstimate == InitEstimate /\ [][NextEstimate]_vars

(***************************************************************************)
(* Claims about the heuristic (checked under SpecEstimate)                 *)
(***************************************************************************)
\* the comma-delimited segments of a location's normalized form, each stripped
Segments(loc) ==
    LET parts == SplitComma(normalize_location(loc))
    IN  [i \in DOMAIN parts |-> Strip(parts[i])]

\* the call is a heuristic estimate of two present locations whose normalized
\* forms differ
HeuristicCase ==
    /\ tcall.op = "calculate_travel_time"
    /\ Present(tcall.origin)
    /\ Present(tcall.destination)
    /\ normalize_location(tcall.origin) /= normalize_location(tcall.destination)

SameLeading(a, b) == a[1] = b[1]
SameSecondToLast(a, b) ==
    Len(a) >= 3 /\ Len(b) >= 3 /\ a[Len(a) - 1] = b[Len(b) - 1]
SameLast(a, b) == a[Len(a)] = b[Len(b)]

\* C10 as stated: the first matching rule of (same leading segment: 5), (same
\* second-to-last segment with both of 3 or more parts: 15), (same last
\* segment: 30), (otherwise: 60) decides the estimate of every pair of present
\* locations with different normalized forms, whatever its number of segments
C10_TiersAnySegmentCount ==
    HeuristicCase =>
        LET a == Segments(tcall.origin)
            b == Segments(tcall.destination)
        IN  tcall.value =
                IF SameLeading(a, b) THEN 5
                ELSE IF SameSecondToLast(a, b) THEN 15
                ELSE IF SameLast(a, b) THEN 30
                ELSE 60

\* C10 amended: the leading-segment rule (5) and the last-segment rule (30)
\* apply only when both addresses have 2 or more comma-delimited parts, the
\* second-to-last rule (15) when both have 3 or more; the first matching rule
\* in that order decides, and every other pair, in particular every pair with
\* a single-segment address, gets 60.  The estimate is one of 5, 15, 30, 60.
C10_TiersWithSegmentGuards ==
    HeuristicCase =>
        LET a == Segments(tcall.origin)
            b == Segments(tcall.destination)
            both2 == Len(a) >= 2 /\ Len(b) >= 2
        IN  /\ tcall.value \in {5, 15, 30, 60}
            /\ tcall.value = 5 <=> (both2 /\ SameLeading(a, b))
            /\ tcall.value = 15 <=>
                   (~(both2 /\ SameLeading(a, b)) /\ SameSecondToLast(a, b))
            /\ tcall.value = 30 <=>
                   (/\ ~(both2 /\ SameLeading(a, b))
                    /\ ~SameSecondToLast(a, b)
                    /\ both2 /\ SameLast(a, b))

\* C10 witness: a single-segment address estimated against an address with the
\* same leading segment
C10_SingleSegmentEstimated ==
    /\ HeuristicCase
    /\ Len(Segments(tcall.origin)) = 1
    /\ Len(Segments(tcall.destination)) >= 2
    /\ SameLeading(Segments(tcall.origin), Segments(tcall.destination))
    /\ tcall.value = 60

(***************************************************************************)
(* Time: minutes since midnight of day 0                                   *)
(***************************************************************************)
MinutesPerHour == 60
MinutesPerDay == 1440

DateOf(t) == t \div MinutesPerDay
StartOfDay(t) == DateOf(t) * MinutesPerDay
TimeOfDay(t) == t % MinutesPerDay
HourOf(t) == TimeOfDay(t) \div MinutesPerHour
\* datetime.combine(date, time(hour=h))
Combine(date, hour) == date * MinutesPerDay + hour * MinutesPerHour

Max2(a, b) == IF a >= b THEN a ELSE b
Min2(a, b) == IF a <= b THEN a ELSE b
AbsVal(x) == IF x >= 0 THEN x ELSE 0 - x

\* an Optional value: <<>> is None, <<v>> is v
Some(v) == <<v>>
Nothing == <<>>

(***************************************************************************)
(* TimeConstraint                                                          *)
(***************************************************************************)
MORNING_START == 6
MORNING_END == 12
AFTERNOON_END == 18
EVENING_END == 22

NoConstraint ==
    [not_before |-> Nothing, not_after |-> Nothing, morning_only |-> FALSE,
     afternoon_only |-> FALSE, evening_only |-> FALSE]

\* is_valid_time with periods that include their closing hour
is_valid_time_closed_periods(c, dt) ==
    LET hour == HourOf(dt)
    IN  /\ ~(c.morning_only /\ ~(MORNING_START <= hour /\ hour <= MORNING_END))
        /\ ~(c.afternoon_only /\ ~(MORNING_END <= hour /\ hour <= AFTERNOON_END))
        /\ ~(c.evening_only /\ ~(AFTERNOON_END <= hour /\ hour <= EVENING_END))
        /\ ~(c.not_before /= Nothing /\ TimeOfDay(dt) < c.not_before[1])
        /\ ~(c.not_after /= Nothing /\ TimeOfDay(dt) > c.not_after[1])

\* TimeConstraint.is_valid_time
is_valid_time(c, dt) ==
    LET hour == HourOf(dt)
    IN  /\ ~(c.morning_only /\ ~(MORNING_START <= hour /\ hour < MORNING_END))
        /\ ~(c.afternoon_only /\ ~(MORNING_END <= hour /\ hour < AFTERNOON_END))
        /\ ~(c.evening_only /\ ~(AFTERNOON_END <= hour /\ hour < EVENING_END))
        /\ ~(c.not_before /= Nothing /\ TimeOfDay(dt) < c.not_before[1])
        /\ ~(c.not_after /= Nothing /\ TimeOfDay(dt) > c.not_after[1])

(***************************************************************************)
(* SmartSchedulerService                                                   *)
(***************************************************************************)
WORK_START_HOUR == 8
WORK_END_HOUR == 20
SLOT_STEP_MINUTES == 15
BASE_SCORE == 100
MAX_TIME_PENALTY == 50
NEARBY_BONUS == 10
DAY_PENALTY == 5
NEARBY_MAX_MINUTES == 30
INITIAL_BEST_SCORE == -1

\* the travel service of the scheduler: settings as shipped, provider off
travel_service(cache, origin, destination) ==
    calculate_travel_time(cache, DefaultConfig, origin, destination, None, ApiFail)

\* the row that a query ordered by start_time returns first from a non-empty
\* set of events; rows with equal keys come in an order the database
\* chooses (tie)
FirstByStart(S, tie) ==
    CHOOSE e \in S : \A f \in S :
        \/ e.start_time < f.start_time
        \/ /\ e.start_time = f.start_time
           /\ IF tie = "lo" THEN e.id <= f.id ELSE f.id <= e.id

\* the row that a query ordered by end_time descending returns first
LastByEnd(S, tie) ==
    CHOOSE e \in S : \A f \in S :
        \/ e.end_time > f.end_time
        \/ /\ e.end_time = f.end_time
           /\ IF tie = "lo" THEN e.id <= f.id ELSE f.id <= e.id

\* the events of a set in the order of a query ordered by start_time
RECURSIVE OrderByStart(_, _)
OrderByStart(S, tie) ==
    IF S = {} THEN <<>>
    ELSE LET e == FirstByStart(S, tie)
         IN  <<e>> \o OrderByStart(S \ {e}, tie)

is_slot_available_start_only(evs, cache, user_id, start_time, end_time, location) ==
    ~(\E e \in evs : /\ e.user_id = user_id
                     /\ e.start_time <= start_time /\ e.end_time > start_time)

\* SmartSchedulerService._is_slot_available
is_slot_available(evs, cache, user_id, start_time, end_time, location) ==
    LET found == {e \in evs :
                    /\ e.user_id = user_id
                    /\ \/ (e.start_time < end_time /\ e.end_time > start_time)
                       \/ (e.start_time < start_time /\ e.end_time > start_time)}
        blocks(event) ==
            \/ (event.start_time < end_time /\ event.end_time > start_time)
            \/ /\ event.end_time <= start_time
               /\ Present(location) /\ Present(event.location)
               /\ event.end_time
                    + travel_service(cache, event.location, location)[1]
                    > start_time
            \/ /\ event.start_time >= end_time
               /\ Present(location) /\ Present(event.location)
               /\ end_time + travel_service(cache, location, event.location)[1]
                    > event.start_time
    IN  IF found = {} THEN TRUE
        ELSE ~(\E event \in found : blocks(event))

\* SmartSchedulerService._check_travel_conflicts:
\* [warnings, cache afterwards]
NoWarnings(cache) == [warnings |-> <<>>, cache |-> cache]

\* one travel-time comparison of _check_travel_conflicts: t is what
\* calculate_travel_time returned, <<minutes, cache afterwards>>
travel_warning(type, event, t, available) ==
    [warnings |-> IF t[1] > available
                  THEN << [type |-> type, event |-> event.id,
                           travel_minutes |-> t[1],
                           available_minutes |-> available] >>
                  ELSE <<>>,
     cache |-> t[2]]

\* the "previous event" half, for the row the query returned
warn_before(cache, prev_event, start_time, location) ==
    IF ~Present(prev_event.location) THEN NoWarnings(cache)
    ELSE travel_warning("insufficient_travel_time_before", prev_event,
             travel_service(cache, prev_event.location, location),
             start_time - prev_event.end_time)

\* the "next event" half, for the row the query returned
warn_after(cache, next_event, end_time, location) ==
    IF ~Present(next_event.location) THEN NoWarnings(cache)
    ELSE travel_warning("insufficient_travel_time_after", next_event,
             travel_service(cache, location, next_event.location),
             next_event.start_time - end_time)

check_before(evs, cache, user_id, start_time, location, tie) ==
    LET before == {e \in evs : e.user_id = user_id /\ e.end_time <= start_time}
    IN  IF before = {} THEN NoWarnings(cache)
        ELSE warn_before(cache, LastByEnd(before, tie),
                         start_time, location)

check_after(evs, cache, user_id, end_time, location, tie) ==
    LET after == {e \in evs : e.user_id = user_id /\ e.start_time >= end_time}
    IN  IF after = {} THEN NoWarnings(cache)
        ELSE warn_after(cache, FirstByStart(after, tie),
                        end_time, location)

\* the warnings of the first half followed by those of the second
append_warnings(first, second) ==
    [warnings |-> first.warnings \o second.warnings, cache |-> second.cache]

then_check_after(evs, first, user_id, end_time, location, tie) ==
    append_warnings(first,
        check_after(evs, first.cache, user_id, end_time, location, tie))

check_travel_conflicts(evs, cache, user_id, start_time, end_time, location, tie) ==
    IF ~Present(location) THEN NoWarnings(cache)
    ELSE then_check_after(evs,
             check_before(evs, cache, user_id, start_time, location, tie),
             user_id, end_time, location, tie)

\* SmartSchedulerService._get_day_events (as a set; the callers modelled here
\* do not depend on the order)
get_day_events(evs, user_id, date) ==
    {e \in evs : /\ e.user_id = user_id
                 /\ e.start_time >= StartOfDay(date)
                 /\ e.start_time < StartOfDay(date) + MinutesPerDay}

\* the cache after calculate_travel_time has been called, provider off, for
\* every pair of a set, in any order
cache_after_lookups(cache, pairs) ==
    LET keys == {CacheKey(p[1], p[2]) :
                    p \in {q \in pairs :
                             /\ Present(q[1]) /\ Present(q[2])
                             /\ Normalized[q[1]] /= Normalized[q[2]]}}
    IN  [k \in DOMAIN cache \cup keys |->
            IF k \in DOMAIN cache THEN cache[k]
            ELSE Estimated[k]]

\* the loop of _get_nearby_events over the located events of the day
nearby_of(located, cache, location) ==
    [nearby |-> {e \in located :
                    travel_service(cache, location, e.location)[1]
                        <= NEARBY_MAX_MINUTES},
     cache |-> cache_after_lookups(cache,
                   {<<location, e.location>> : e \in located})]

\* SmartSchedulerService._get_nearby_events: [nearby, cache afterwards]
get_nearby_events(evs, cache, user_id, reference_time, location) ==
    nearby_of({e \in get_day_events(evs, user_id, reference_time) :
                  Present(e.location)},
              cache, location)

\* a score that grows with the distance to the preferred start
slot_score_rewarding_distance(time_diff, near, day_offset) ==
    [score |-> BASE_SCORE * MinutesPerHour
               + Min2(time_diff, MAX_TIME_PENALTY * MinutesPerHour)
               + Cardinality(near.nearby) * NEARBY_BONUS * MinutesPerHour
               - day_offset * DAY_PENALTY * MinutesPerHour,
     cache |-> near.cache]

\* a score whose time penalty has no ceiling
slot_score_uncapped(time_diff, near, day_offset) ==
    [score |-> BASE_SCORE * MinutesPerHour
               - time_diff
               + Cardinality(near.nearby) * NEARBY_BONUS * MinutesPerHour
               - day_offset * DAY_PENALTY * MinutesPerHour,
     cache |-> near.cache]

\* the arithmetic of _calculate_slot_score, in sixtieths of a point, so that
\* a time difference of one minute (1/60 hour) costs one unit
slot_score(time_diff, near, day_offset) ==
    [score |-> BASE_SCORE * MinutesPerHour
               - Min2(time_diff, MAX_TIME_PENALTY * MinutesPerHour)
               + Cardinality(near.nearby) * NEARBY_BONUS * MinutesPerHour
               - day_offset * DAY_PENALTY * MinutesPerHour,
     cache |-> near.cache]

\* SmartSchedulerService._calculate_slot_score: [score, cache afterwards]
calculate_slot_score(evs, cache, user_id, start_time, end_time, location, preferred_start, day_offset) ==
    slot_score(AbsVal(start_time - preferred_start),
               IF Present(location)
               THEN get_nearby_events(evs, cache, user_id, start_time, location)
               ELSE [nearby |-> {}, cache |-> cache],
               day_offset)

better_score_or_equal(score, best_score) == score >= best_score

\* the comparison that replaces the retained candidate
better_score(score, best_score) == score > best_score

\* a search that starts every day at the opening hour
search_start_hour_opening(preferred_start, day_offset) == WORK_START_HOUR

\* a search that starts every day at midnight
search_start_hour_midnight(preferred_start, day_offset) == HourOf(0)

\* the hour at which the search of a day starts
search_start_hour(preferred_start, day_offset) ==
    IF day_offset > 0 THEN WORK_START_HOUR
    ELSE Max2(HourOf(preferred_start), WORK_START_HOUR)

\* the candidate that replaces the retained one: s is its score, w what
\* _check_travel_conflicts found for it
retain_candidate(current_time, s, w) ==
    [best_slot |-> Some([success |-> TRUE,
                         scheduled_time |-> Some(current_time),
                         message |-> "optimal_slot_found",
                         travel_warnings |-> w.warnings,
                         optimization_applied |-> TRUE]),
     best_score |-> s.score,
     cache |-> w.cache]

\* the candidate is valid and available, and has been scored (s)
score_candidate(evs, rq, current_time, acc, s) ==
    IF better_score(s.score, acc.best_score)
    THEN retain_candidate(current_time, s,
             check_travel_conflicts(evs, s.cache, rq.user_id, current_time,
                 current_time + rq.duration, rq.location, rq.tie))
    ELSE [acc EXCEPT !.cache = s.cache]

\* a loop body that does not ask the constraints
visit_candidate_unconstrained(evs, rq, day_offset, current_time, acc) ==
    IF ~is_slot_available(evs, acc.cache, rq.user_id, current_time,
                          current_time + rq.duration, rq.location)
    THEN acc
    ELSE score_candidate(evs, rq, current_time, acc,
             calculate_slot_score(evs, acc.cache, rq.user_id, current_time,
                 current_time + rq.duration, rq.location, rq.preferred_start,
                 day_offset))

\* the body of the search loop for the candidate that starts at current_time
visit_candidate(evs, rq, day_offset, current_time, acc) ==
    IF ~is_valid_time(rq.constraints, current_time) THEN acc
    ELSE IF ~is_slot_available(evs, acc.cache, rq.user_id, current_time,
                               current_time + rq.duration, rq.location)
    THEN acc
    ELSE score_candidate(evs, rq, current_time, acc,
             calculate_slot_score(evs, acc.cache, rq.user_id, current_time,
                 current_time + rq.duration, rq.location, rq.preferred_start,
                 day_offset))

\* the accumulator after one more pass of the while loop: a is what the loop
\* body left, visited counts the passes
after_visit(acc, a) ==
    [best_slot |-> a.best_slot, best_score |-> a.best_score,
     cache |-> a.cache, visited |-> acc.visited + 1]

\* one day of SmartSchedulerService._find_optimal_slot, from current_time on.
\* best_score never goes below its initial value; the test on it makes the
\* evaluation of one candidate finish before the next one is visited.
RECURSIVE scan_day(_, _, _, _, _)
scan_day(evs, rq, day_offset, current_time, acc) ==
    IF /\ current_time + rq.duration
             <= Combine(DateOf(rq.preferred_start) + day_offset, WORK_END_HOUR)
       /\ acc.best_score >= INITIAL_BEST_SCORE * MinutesPerHour
    THEN scan_day(evs, rq, day_offset, current_time + SLOT_STEP_MINUTES,
                  after_visit(acc,
                      visit_candidate(evs, rq, day_offset, current_time, acc)))
    ELSE acc

\* the days of SmartSchedulerService._find_optimal_slot, from day_offset on
RECURSIVE scan_days(_, _, _, _)
scan_days(evs, rq, day_offset, acc) ==
    IF /\ day_offset < rq.search_days
       /\ acc.best_score >= INITIAL_BEST_SCORE * MinutesPerHour
    THEN scan_days(evs, rq, day_offset + 1,
             scan_day(evs, rq, day_offset,
                 Combine(DateOf(rq.preferred_start) + day_offset,
                         search_start_hour(rq.preferred_start, day_offset)),
                 acc))
    ELSE acc

\* SmartSchedulerService._find_optimal_slot: [best_slot, best_score, cache]
find_optimal_slot(evs, cache, rq) ==
    scan_days(evs, rq, 0,
        [best_slot |-> Nothing,
         best_score |-> INITIAL_BEST_SCORE * MinutesPerHour,
         cache |-> cache,
         visited |-> 0])

accept_preferred_without_warnings(travel_warnings, priority) ==
    travel_warnings = <<>>

\* the test that returns the preferred slot at once
accept_preferred(travel_warnings, priority) ==
    travel_warnings = <<>> \/ priority = "high"

NoSlotResult ==
    [success |-> FALSE, scheduled_time |-> Nothing,
     message |-> "no_slot_available", travel_warnings |-> <<>>,
     optimization_applied |-> FALSE]

\* the end of _find_optimal_slot and of find_best_slot: the retained
\* candidate, or the failure result
search_result(best) ==
    [result |-> IF best.best_slot /= Nothing THEN best.best_slot[1]
                ELSE NoSlotResult,
     cache |-> best.cache]

\* the preferred slot is available and valid, w is what
\* _check_travel_conflicts found for it
preferred_or_search(evs, rq, w) ==
    IF accept_preferred(w.warnings, rq.priority)
    THEN [result |-> [success |-> TRUE,
                      scheduled_time |-> Some(rq.preferred_start),
                      message |-> "preferred_slot_available",
                      travel_warnings |-> w.warnings,
                      optimization_applied |-> FALSE],
          cache |-> w.cache]
    ELSE search_result(find_optimal_slot(evs, w.cache, rq))

\* find_best_slot that searches without the constraints of the request
find_best_slot_unconstrained_search(evs, cache, rq) ==
    IF /\ is_slot_available(evs, cache, rq.user_id, rq.preferred_start,
                            rq.preferred_start + rq.duration, rq.location)
       /\ is_valid_time(rq.constraints, rq.preferred_start)
    THEN preferred_or_search(evs, rq,
             check_travel_conflicts(evs, cache, rq.user_id, rq.preferred_start,
                 rq.preferred_start + rq.duration, rq.location, rq.tie))
    ELSE search_result(find_optimal_slot(evs, cache,
                           [rq EXCEPT !.constraints =
                               [not_before |-> Nothing, not_after |-> Nothing,
                                morning_only |-> FALSE, afternoon_only |-> FALSE,
                                evening_only |-> FALSE]]))

\* SmartSchedulerService.find_best_slot: [result, cache afterwards]
find_best_slot(evs, cache, rq) ==
    IF /\ is_slot_available(evs, cache, rq.user_id, rq.preferred_start,
                            rq.preferred_start + rq.duration, rq.location)
       /\ is_valid_time(rq.constraints, rq.preferred_start)
    THEN preferred_or_search(evs, rq,
             check_travel_conflicts(evs, cache, rq.user_id, rq.preferred_start,
                 rq.preferred_start + rq.duration, rq.location, rq.tie))
    ELSE search_result(find_optimal_slot(evs, cache, rq))

\* detect_travel_conflicts that also reports a travel time equal to the gap
travel_reaches(travel_time, available_time) == travel_time >= available_time

\* detect_travel_conflicts: if travel_time > available_time
travel_exceeds(travel_time, available_time) == travel_time > available_time

\* a record that proposes the start the next event already has
conflict_record_keeping_start(current_event, next_event, travel_time) ==
    [current_event |-> current_event.id,
     next_event |-> next_event.id,
     travel_time_minutes |-> travel_time,
     shortage_minutes |->
         travel_time - (next_event.start_time - current_event.end_time),
     suggested_new_time |-> next_event.start_time]

\* the record detect_travel_conflicts appends for a pair (ids for the events)
conflict_record(current_event, next_event, travel_time) ==
    [current_event |-> current_event.id,
     next_event |-> next_event.id,
     travel_time_minutes |-> travel_time,
     shortage_minutes |->
         travel_time - (next_event.start_time - current_event.end_time),
     suggested_new_time |-> current_event.end_time + travel_time]

\* the loop of detect_travel_conflicts from index i of the day's events
RECURSIVE detect_pairs(_, _, _, _)
detect_pairs(day, i, cache, conflicts) ==
    IF i > Len(day) - 1 THEN [conflicts |-> conflicts, cache |-> cache]
    ELSE LET t == travel_service(cache, day[i].location, day[i + 1].location)
             available_time == day[i + 1].start_time - day[i].end_time
         IN  detect_pairs(day, i + 1, t[2],
                 IF travel_exceeds(t[1], available_time)
                 THEN Append(conflicts, conflict_record(day[i], day[i + 1], t[1]))
                 ELSE conflicts)

\* SmartSchedulerService.detect_travel_conflicts: [conflicts, cache afterwards]
detect_travel_conflicts(evs, cache, user_id, date, tie) ==
    LET day == OrderByStart(get_day_events(evs, user_id, date), tie)
    IN  IF Len(day) < 2 THEN [conflicts |-> <<>>, cache |-> cache]
        ELSE detect_pairs(day, 1, cache, <<>>)

MIN_SAVINGS_MINUTES == 10

\* SmartSchedulerService._calculate_total_travel_time from index i:
\* [total, cache afterwards]
RECURSIVE calculate_total_travel_time(_, _, _, _)
calculate_total_travel_time(evs_list, i, cache, total) ==
    IF i > Len(evs_list) - 1 THEN [total |-> total, cache |-> cache]
    ELSE LET t == travel_service(cache, evs_list[i].location,
                                 evs_list[i + 1].location)
         IN  calculate_total_travel_time(evs_list, i + 1, t[2], total + t[1])

\* SmartSchedulerService._optimize_by_location: the events as they are
optimize_by_location(flexible_events, all_events) == all_events

\* SmartSchedulerService._generate_reorganization_suggestions: none
generate_reorganization_suggestions(current, optimized) == <<>>

\* the end of optimize_event_sequence, from the two totals
optimize_outcome(day, current, optimized) ==
    [result |->
        IF current.total - optimized.total > MIN_SAVINGS_MINUTES
        THEN [optimization_possible |-> TRUE,
              message |-> "can_reorganize",
              current_travel_minutes |-> current.total,
              optimized_travel_minutes |-> optimized.total,
              savings_minutes |-> current.total - optimized.total,
              suggestions |-> generate_reorganization_suggestions(day,
                                  optimize_by_location(<<>>, day))]
        ELSE [optimization_possible |-> FALSE, message |-> "already_optimal"],
     cache |-> optimized.cache]

Flexible(e) == e.is_flexible

\* SmartSchedulerService.optimize_event_sequence: [result, cache afterwards]
optimize_event_sequence(evs, cache, user_id, date, tie) ==
    LET day == OrderByStart(get_day_events(evs, user_id, date), tie)
        flexible_events == SelectSeq(day, Flexible)
        current == calculate_total_travel_time(day, 1, cache, 0)
    IN  IF Len(flexible_events) < 2
        THEN [result |-> [optimization_possible |-> FALSE,
                          message |-> "not_enough_flexible_events"],
              cache |-> cache]
        ELSE optimize_outcome(day, current,
                 calculate_total_travel_time(
                     optimize_by_location(flexible_events, day), 1,
                     current.cache, 0))

(***************************************************************************)
(* The scheduler's environment: events and requests                        *)
(***************************************************************************)
At(day, hour, minute) == day * MinutesPerDay + hour * MinutesPerHour + minute

\* the search window allowed by SmartScheduleRequest is 1..30 days; the model
\* searches up to this many
MaxSearchDays == 12

\* the event store holds at most this many events
MaxEvents == 3

Event(id, user_id, start_time, end_time, location) ==
    [id |-> id, user_id |-> user_id, start_time |-> start_time,
     end_time |-> end_time, location |-> location, status |-> "pending",
     category_id |-> 1, is_flexible |-> TRUE, created_at |-> 0, updated_at |-> 0]

SchedulerEvents ==
    { Event(1, 1, At(0, 9, 0), At(0, 10, 0), LocOfficeA),
      Event(2, 1, At(0, 10, 30), At(0, 10, 45), NoLocation),
      Event(4, 2, At(0, 9, 0), At(0, 11, 0), LocNear),
      Event(5, 1, At(0, 11, 0), At(0, 12, 0), LocParisF),
      Event(6, 1, At(0, 8, 0), At(0, 20, 0), NoLocation),
      Event(7, 1, At(0, 9, 30), At(0, 10, 0), NoLocation) }

\* events that block whole days of the search window
WindowEvents ==
    { Event(3, 1, At(0, 0, 0), At(MaxSearchDays - 1, 8, 0), NoLocation),
      Event(6, 1, At(0, 8, 0), At(0, 20, 0), NoLocation),
      Event(8, 1, At(0, 0, 0), At(3, 8, 0), NoLocation),
      Event(9, 1, At(1, 8, 0), At(1, 19, 30), NoLocation) }

AfternoonOnly == [NoConstraint EXCEPT !.afternoon_only = TRUE]
TenToNoon ==
    [NoConstraint EXCEPT !.not_before = Some(At(0, 10, 0)),
                         !.not_after = Some(At(0, 12, 0))]

Request(user_id, duration, preferred_start, priority, location, constraints, search_days, tie) ==
    [user_id |-> user_id, duration |-> duration,
     preferred_start |-> preferred_start, priority |-> priority,
     location |-> location, constraints |-> constraints,
     search_days |-> search_days, tie |-> tie]

TieOrders(location) == IF Present(location) THEN {"lo", "hi"} ELSE {"lo"}

SchedulerRequests ==
    { Request(1, d, p, "medium", NoLocation, c, n, "lo") :
        d \in {15, 60}, p \in {At(0, 9, 0), At(0, 10, 30), At(0, 21, 0)},
        c \in {NoConstraint, TenToNoon}, n \in {1, 2} }
    \cup
    { Request(1, d, p, pr, LocNear, NoConstraint, 1, tie) :
        d \in {15, 60}, p \in {At(0, 10, 30), At(0, 10, 15)},
        pr \in {"medium", "high"}, tie \in {"lo", "hi"} }
    \cup
    { Request(2, 60, At(0, 9, 0), "low", NoLocation, c, 1, "lo") :
        c \in {NoConstraint, AfternoonOnly} }

\* requests that search several days
WindowRequests ==
    { Request(1, d, p, "medium", NoLocation, NoConstraint, n, "lo") :
        d \in {60, 120}, p \in {At(0, 9, 0), At(0, 10, 30)},
        n \in {2, 4, MaxSearchDays - 1, MaxSearchDays} }

(***************************************************************************)
(* Operations of the scheduler                                             *)
(***************************************************************************)
\* the persistence collaborator creates an event
CreateEvent(e) ==
    /\ result.op = "none" /\ last.op = "none"
    /\ e \notin events
    /\ Cardinality(events) < MaxEvents
    /\ events' = events \cup {e}
    /\ UNCHANGED <<travel_cache, tcall, result, suggestions, now, next_id, last>>

\* the persistence collaborator deletes an event
DeleteEvent(e) ==
    /\ result.op = "none" /\ last.op = "none"
    /\ e \in events
    /\ events' = events \ {e}
    /\ UNCHANGED <<travel_cache, tcall, result, suggestions, now, next_id, last>>

\* POST /smart-schedule/find-best-slot
FindBestSlot(rq) ==
    /\ result.op = "none"
    /\ LET r == find_best_slot(events, travel_cache, rq)
       IN  /\ result' = [op |-> "find_best_slot", rq |-> rq, res |-> r.result]
           /\ travel_cache' = r.cache
    /\ UNCHANGED <<tcall, events, suggestions, now, next_id, last>>

\* the response has been delivered
ReturnResult ==
    /\ result.op /= "none"
    /\ result' = NoCall
    /\ UNCHANGED <<travel_cache, tcall, events, suggestions, now, next_id, last>>

InitSched ==
    /\ travel_cache = EmptyCache
    /\ tcall = NoCall
    /\ events = {}
    /\ result = NoCall
    /\ suggestions = {}
    /\ now = 0
    /\ next_id = 1
    /\ last = NoCall

NextSched ==
    \/ \E e \in SchedulerEvents : CreateEvent(e)
    \/ \E e \in SchedulerEvents : DeleteEvent(e)
    \/ \E rq \in SchedulerRequests : FindBestSlot(rq)
    \/ ReturnResult

SpecSched == InitSched /\ [][NextSched]_vars

\* the scheduler over windows of several days
NextWindow ==
    \/ \E e \in WindowEvents : CreateEvent(e)
    \/ \E e \in WindowEvents : DeleteEvent(e)
    \/ \E rq \in WindowRequests : FindBestSlot(rq)
    \/ ReturnResult

SpecWindow == InitSched /\ [][NextWindow]_vars

(***************************************************************************)
(* TimeConstraint.is_valid_time on its own: every constraint of the menu   *)
(* against every timestamp of the menu                                     *)
(***************************************************************************)
ConstraintInputs ==
    [not_before : {Nothing, Some(At(0, 0, 0)), Some(At(0, 10, 0))},
     not_after : {Nothing, Some(At(0, 12, 0))},
     morning_only : BOOLEAN, afternoon_only : BOOLEAN, evening_only : BOOLEAN]

TimestampInputs ==
    {At(d, h, 0) : d \in {0, 1}, h \in {0, 5, 6, 11, 12, 17, 18, 21, 22}}
    \cup {At(0, 9, 59), At(0, 10, 0), At(1, 12, 1), At(1, 17, 59)}

IsValidTime(c, dt) ==
    /\ result.op = "request"
    /\ result.constraints = c
    /\ result.dt = dt
    /\ result' = [op |-> "is_valid_time", constraints |-> c, dt |-> dt,
                  value |-> is_valid_time(c, dt)]
    /\ UNCHANGED <<travel_cache, tcall, events, suggestions, now, next_id, last>>

InitConstraint ==
    /\ travel_cache = EmptyCache
    /\ tcall = NoCall
    /\ events = {}
    /\ result \in {[op |-> "request", constraints |-> c, dt |-> dt] :
                       c \in ConstraintInputs, dt \in TimestampInputs}
    /\ suggestions = {}
    /\ now = 0
    /\ next_id = 1
    /\ last = NoCall

NextConstraint ==
    \E c \in ConstraintInputs, dt \in TimestampInputs : IsValidTime(c, dt)

SpecConstraint == InitConstraint /\ [][NextConstraint]_vars

(***************************************************************************)
(* The travel conflicts of a day                                           *)
(***************************************************************************)
ConflictEvents ==
    { Event(1, 1, At(0, 9, 0), At(0, 10, 0), LocOfficeA),
      Event(2, 1, At(0, 10, 5), At(0, 10, 10), LocOfficeB),
      Event(3, 1, At(0, 10, 10), At(0, 11, 0), LocParis),
      Event(4, 1, At(0, 9, 30), At(0, 10, 30), NoLocation),
      Event(5, 1, At(0, 9, 0), At(0, 9, 20), LocNear),
      Event(6, 2, At(0, 9, 0), At(0, 10, 0), LocParis),
      Event(7, 1, At(1, 9, 0), At(1, 10, 0), LocParis) }

ConflictDates == {At(0, 12, 0), At(1, 0, 0)}

\* POST /smart-schedule/detect-travel-conflicts
DetectTravelConflicts(user_id, date, tie) ==
    /\ result.op = "none"
    /\ LET r == detect_travel_conflicts(events, travel_cache, user_id, date, tie)
       IN  /\ result' = [op |-> "detect_travel_conflicts", user_id |-> user_id,
                         date |-> date, tie |-> tie, conflicts |-> r.conflicts]
           /\ travel_cache' = r.cache
    /\ UNCHANGED <<tcall, events, suggestions, now, next_id, last>>

NextConflicts ==
    \/ \E e \in ConflictEvents : CreateEvent(e)
    \/ \E e \in ConflictEvents : DeleteEvent(e)
    \/ \E user_id \in {1, 2}, date \in ConflictDates, tie \in {"lo", "hi"} :
          DetectTravelConflicts(user_id, date, tie)
    \/ ReturnResult

SpecConflicts == InitSched /\ [][NextConflicts]_vars

(***************************************************************************)
(* Properties of the scheduler                                             *)
(***************************************************************************)
\* the number of 15-minute steps between the two ends of the working day
SlotsPerDay ==
    ((WORK_END_HOUR - WORK_START_HOUR) * MinutesPerHour) \div SLOT_STEP_MINUTES

\* the candidate starts of the search window of a request, as the loops of
\* _find_optimal_slot enumerate them
CandidateStarts(rq) ==
    UNION { { t \in { Combine(DateOf(rq.preferred_start) + d,
                              search_start_hour(rq.preferred_start, d))
                        + SLOT_STEP_MINUTES * k : k \in 0..SlotsPerDay } :
                t + rq.duration
                    <= Combine(DateOf(rq.preferred_start) + d, WORK_END_HOUR) } :
            d \in 0..(rq.search_days - 1) }

\* the candidates that satisfy the constraints and are available
AvailableCandidates(evs, cache, rq) ==
    { t \in CandidateStarts(rq) :
        /\ is_valid_time(rq.constraints, t)
        /\ is_slot_available(evs, cache, rq.user_id, t, t + rq.duration,
                             rq.location) }

\* the score of the candidate that starts at t
CandidateScore(evs, cache, rq, t) ==
    calculate_slot_score(evs, cache, rq.user_id, t, t + rq.duration,
        rq.location, rq.preferred_start,
        DateOf(t) - DateOf(rq.preferred_start)).score

\* an event of the user overlaps [t, t + duration)
Overlaps(evs, user_id, t, duration) ==
    \E e \in evs : /\ e.user_id = user_id
                   /\ e.start_time < t + duration
                   /\ e.end_time > t

Returned == result.op = "find_best_slot"
PreferredAccepted == Returned /\ result.res.message = "preferred_slot_available"
Searched == Returned /\ result.res.message /= "preferred_slot_available"

\* C1: whenever find_best_slot returns success with scheduled_time t, the
\* preferred slot or a searched one, no event of that user overlaps
\* [t, t + duration)
C1_SuccessSlotOverlapsNoEvent ==
    (Returned /\ result.res.success) =>
        ~Overlaps(events, result.rq.user_id, result.res.scheduled_time[1],
                  result.rq.duration)

\* C1 witness: the search returned a slot for a user whose preferred slot is
\* taken by one of their events
C1_SearchedAroundEvent ==
    /\ Returned /\ result.res.success /\ result.res.optimization_applied
    /\ Overlaps(events, result.rq.user_id, result.rq.preferred_start,
                result.rq.duration)

\* C2: when the preferred slot is not accepted, find_best_slot returns success
\* if and only if a candidate of the search window satisfies the constraints
\* and is available, whatever search_days and the day offset of the candidate
C2_SuccessIffCandidateExists ==
    Searched =>
        (result.res.success
            <=> AvailableCandidates(events, travel_cache, result.rq) /= {})

\* C3: the slot the search returns is an available candidate of the highest
\* score, and the first one of that score in scan order
C3_HighestScoreFirstFound ==
    (Searched /\ result.res.success) =>
        LET t == result.res.scheduled_time[1]
            cands == AvailableCandidates(events, travel_cache, result.rq)
            best == CandidateScore(events, travel_cache, result.rq, t)
        IN  /\ t \in cands
            /\ \A c \in cands :
                   LET s == CandidateScore(events, travel_cache, result.rq, c)
                   IN  /\ s <= best
                       /\ s = best => t <= c

\* C3 witness: the search returned a slot while a later candidate had the
\* same score
C3_TieKeptFirst ==
    /\ Searched /\ result.res.success
    /\ \E c \in AvailableCandidates(events, travel_cache, result.rq) :
           /\ c > result.res.scheduled_time[1]
           /\ CandidateScore(events, travel_cache, result.rq, c)
                = CandidateScore(events, travel_cache, result.rq,
                                 result.res.scheduled_time[1])

\* what _check_travel_conflicts finds for the preferred slot of the request
\* that has been answered
PreferredWarnings ==
    check_travel_conflicts(events, travel_cache, result.rq.user_id,
        result.rq.preferred_start,
        result.rq.preferred_start + result.rq.duration,
        result.rq.location, result.rq.tie).warnings

\* the preferred slot of the answered request overlaps no event of the user
\* and satisfies the constraints
PreferredFreeAndValid ==
    /\ ~Overlaps(events, result.rq.user_id, result.rq.preferred_start,
                 result.rq.duration)
    /\ is_valid_time(result.rq.constraints, result.rq.preferred_start)

\* C4: a free and valid preferred slot is returned as it is, with
\* optimization_applied false and its travel warnings, when there are no
\* travel warnings or the priority is high, inside working hours or not;
\* otherwise the request goes to the search
C4_PreferredAcceptedUnlessWarned ==
    (Returned /\ PreferredFreeAndValid) =>
        IF PreferredWarnings = <<>> \/ result.rq.priority = "high"
        THEN /\ result.res.success
             /\ result.res.scheduled_time = Some(result.rq.preferred_start)
             /\ result.res.optimization_applied = FALSE
             /\ result.res.message = "preferred_slot_available"
             /\ result.res.travel_warnings = PreferredWarnings
        ELSE Searched

\* C4 witness: a high-priority request got its preferred slot together with
\* travel warnings
C4_HighPriorityKeepsWarnedSlot ==
    /\ PreferredAccepted
    /\ result.rq.priority = "high"
    /\ result.res.travel_warnings /= <<>>

(***************************************************************************)
(* The floats of the rules engine. The hours the rules add up and compare  *)
(* are Python floats (IEEE doubles): a quotient or a sum is the double     *)
(* nearest to the exact value, ties going to the even one. A double near   *)
(* minutes/60 hours is written as the pair [minutes, err] that stands for  *)
(* (minutes * 2^58 + err) / 15 units of 2^-60 hour; err = 0 is the exact   *)
(* value.                                                                  *)
(***************************************************************************)
Float(minutes, err) == [minutes |-> minutes, err |-> err]

\* 2^n for the exponents the spacings need
Pow2(n) == <<1, 2, 4, 8, 16, 32, 64, 128, 256, 512, 1024, 2048, 4096, 8192,
             16384, 32768>>[n + 1]

\* the exponent j of the spacing 2^j (in units of 2^-60 hour) of the doubles
\* of the binade the exact value x lies in
FloatSpacing(x) ==
    CHOOSE j \in 0..14 :
        /\ \/ 256 * x.minutes > 60 * Pow2(j)
           \/ 256 * x.minutes = 60 * Pow2(j) /\ x.err >= 0
        /\ \/ 256 * x.minutes < 60 * Pow2(j + 1)
           \/ 256 * x.minutes = 60 * Pow2(j + 1) /\ x.err < 0

\* the double nearest to the exact value x (round half to even): with
\* minutes * 2^(58-j) = 15 * Q + r, x is (Q + (r * 2^j + err) / (15 * 2^j))
\* spacings, and Q has the parity of r
float_round(x) ==
    IF x.minutes = 0 /\ x.err = 0 THEN x
    ELSE LET j == FloatSpacing(x)
             p == Pow2(j)
             r == (x.minutes * Pow2((58 - j) % 4)) % 15
             num == r * p + x.err
             fl == num \div (15 * p)
             rem == num % (15 * p)
             R == IF 2 * rem < 15 * p THEN fl
                  ELSE IF 2 * rem > 15 * p THEN fl + 1
                  ELSE IF (r + fl) % 2 = 0 THEN fl ELSE fl + 1
         IN  Float(x.minutes, p * (15 * R - r))

\* (event_end - event_start).total_seconds() / 3600
float_hours(minutes) == float_round(Float(minutes, 0))

\* a + b on floats
float_add(a, b) == float_round(Float(a.minutes + b.minutes, a.err + b.err))

\* a >= hours, for a whole number of hours
float_at_least(a, hours) ==
    \/ a.minutes > hours * 60
    \/ a.minutes = hours * 60 /\ a.err >= 0

\* a / b > 0.6 on floats: the literal 0.6 is the double 5404319552844595 *
\* 2^-53, and the quotient rounds to a double above it exactly when
\* a / b >= 0.6 * (1 + 2^-54), the midpoint to the next double (the tie goes
\* up, to the even one), that is when (5a - 3b) * 2^54 >= 3b
float_over_six_tenths(a, b) ==
    LET dm == 5 * a.minutes - 3 * b.minutes
        de == 5 * a.err - 3 * b.err
    IN  IF dm /= 0 THEN dm > 0
        ELSE IF b.err > 0 THEN de > 48 * b.minutes
        ELSE de >= 48 * b.minutes

(***************************************************************************)
(* RulesEngineService                                                      *)
(***************************************************************************)
MAX_WORK_HOURS_BEFORE_BREAK == 3
BREAK_DURATION_MINUTES == 15
BLOCK_GAP_MINUTES == 30
SUGGESTION_EXPIRY_HOURS == 24
POSTPONEMENT_WINDOW_DAYS == 7

\* the rows of the categories table: id -> name
Categories == (1 :> "work") @@ (2 :> "personal")

\* the Suggestion row that db.add and commit store for a suggestion the
\* engine built: the store gives it its id, its status and its creation time
StoredSuggestion(new, id, t) ==
    [id |-> id, user_id |-> new.user_id, type |-> new.type,
     priority |-> new.priority, status |-> "pending",
     related_event_id |-> new.related_event_id,
     suggested_time |-> new.suggested_time,
     suggested_break_duration |-> new.suggested_break_duration,
     dominant_category |-> new.dominant_category,
     created_at |-> t, expires_at |-> new.expires_at]

\* RulesEngineService._create_break_suggestion
create_break_suggestion(user_id, hours_worked, suggested_time, t) ==
    [user_id |-> user_id, type |-> "take_break", priority |-> "medium",
     related_event_id |-> Nothing, suggested_time |-> suggested_time,
     suggested_break_duration |-> Some(BREAK_DURATION_MINUTES),
     dominant_category |-> Nothing,
     expires_at |-> t + SUGGESTION_EXPIRY_HOURS * MinutesPerHour]

\* RulesEngineService._create_balance_suggestion
create_balance_suggestion(user_id, dominant_category, date, t) ==
    [user_id |-> user_id, type |-> "balance_day", priority |-> "low",
     related_event_id |-> Nothing, suggested_time |-> Nothing,
     suggested_break_duration |-> Nothing,
     dominant_category |-> Some(dominant_category),
     expires_at |-> t + SUGGESTION_EXPIRY_HOURS * MinutesPerHour]

\* RulesEngineService._create_move_suggestion
create_move_suggestion(user_id, event, t) ==
    [user_id |-> user_id, type |-> "move_event", priority |-> "medium",
     related_event_id |-> Some(event.id), suggested_time |-> Nothing,
     suggested_break_duration |-> Nothing, dominant_category |-> Nothing,
     expires_at |-> t + SUGGESTION_EXPIRY_HOURS * MinutesPerHour]

\* RulesEngineService._suggestion_exists, at time t
suggestion_exists(sugs, t, user_id, suggestion_type, reference_time, event_id) ==
    \E s \in sugs :
        /\ s.user_id = user_id
        /\ s.type = suggestion_type
        /\ s.status = "pending"
        /\ s.expires_at > t
        /\ (event_id /= Nothing => s.related_event_id = event_id)
        /\ s.created_at >= StartOfDay(reference_time)
        /\ s.created_at < StartOfDay(reference_time) + MinutesPerDay

\* a cleanup that leaves out the filter on the status
cleanup_expired_suggestions_any_status(sugs, t, user_id) ==
    { IF s.user_id = user_id /\ s.expires_at < t
      THEN [s EXCEPT !.status = "expired"]
      ELSE s : s \in sugs }

\* a cleanup that leaves out the filter on the user
cleanup_expired_suggestions_every_user(sugs, t, user_id) ==
    { IF s.expires_at < t /\ s.status = "pending"
      THEN [s EXCEPT !.status = "expired"]
      ELSE s : s \in sugs }

\* RulesEngineService._cleanup_expired_suggestions, at time t
cleanup_expired_suggestions(sugs, t, user_id) ==
    { IF s.user_id = user_id /\ s.expires_at < t /\ s.status = "pending"
      THEN [s EXCEPT !.status = "expired"]
      ELSE s : s \in sugs }

\* the events of a user's day that the break and balance rules read
rule_day_events(evs, user_id, date) ==
    {e \in evs : /\ e.user_id = user_id
                 /\ e.start_time >= StartOfDay(date)
                 /\ e.start_time < StartOfDay(date) + MinutesPerDay
                 /\ e.status /= "cancelled"}

\* the test of _check_break_rule on a block that has ended: the suggestions
\* so far, with one more when the block is long enough and no similar
\* suggestion is stored
close_block(sugs, t, user_id, block, out) ==
    IF /\ float_at_least(block.hours, MAX_WORK_HOURS_BEFORE_BREAK)
       /\ ~suggestion_exists(sugs, t, user_id, "take_break", block.start,
                             Nothing)
    THEN Append(out, create_break_suggestion(user_id, block.hours,
                                             Some(block.last_end), t))
    ELSE out

\* the loop of _check_break_rule over the events from index i on; block is
\* the current block [start, hours (a float), last_end]
RECURSIVE break_blocks(_, _, _, _, _, _, _)
break_blocks(sugs, t, user_id, ordered, i, block, out) ==
    IF i > Len(ordered) THEN close_block(sugs, t, user_id, block, out)
    ELSE IF ordered[i].start_time - block.last_end <= BLOCK_GAP_MINUTES
    THEN break_blocks(sugs, t, user_id, ordered, i + 1,
             [start |-> block.start,
              hours |-> float_add(block.hours,
                           float_hours(ordered[i].end_time - ordered[i].start_time)),
              last_end |-> ordered[i].end_time],
             out)
    ELSE break_blocks(sugs, t, user_id, ordered, i + 1,
             [start |-> ordered[i].start_time,
              hours |-> float_hours(ordered[i].end_time - ordered[i].start_time),
              last_end |-> ordered[i].end_time],
             close_block(sugs, t, user_id, block, out))

\* _check_break_rule once the events of the day are read, in start order
break_rule_over(sugs, t, user_id, ordered) ==
    IF ordered = <<>> THEN <<>>
    ELSE break_blocks(sugs, t, user_id, ordered, 2,
             [start |-> ordered[1].start_time,
              hours |-> float_hours(ordered[1].end_time - ordered[1].start_time),
              last_end |-> ordered[1].end_time],
             <<>>)

\* RulesEngineService._check_break_rule: the suggestions to add
check_break_rule(evs, sugs, t, user_id, date, tie) ==
    break_rule_over(sugs, t, user_id,
        OrderByStart(rule_day_events(evs, user_id, date), tie))

\* the events of a set in the order the store returns them when the query
\* has no order_by: by id, one way or the other
RECURSIVE OrderById(_, _)
OrderById(S, tie) ==
    IF S = {} THEN <<>>
    ELSE LET e == CHOOSE x \in S : \A y \in S :
                      IF tie = "lo" THEN x.id <= y.id ELSE y.id <= x.id
         IN  <<e>> \o OrderById(S \ {e}, tie)

\* category_hours[name] after the loop over the first n rows of the day:
\* the durations of the events of that category, added up in the order read
RECURSIVE category_hours(_, _, _)
category_hours(rows, n, name) ==
    IF n = 0 THEN Float(0, 0)
    ELSE IF /\ rows[n].category_id \in DOMAIN Categories
            /\ Categories[rows[n].category_id] = name
    THEN float_add(category_hours(rows, n - 1, name),
                   float_hours(rows[n].end_time - rows[n].start_time))
    ELSE category_hours(rows, n - 1, name)

\* total_hours after the first n rows: events whose category row does not
\* exist count for nothing
RECURSIVE total_hours(_, _)
total_hours(rows, n) ==
    IF n = 0 THEN Float(0, 0)
    ELSE IF rows[n].category_id \in DOMAIN Categories
    THEN float_add(total_hours(rows, n - 1),
                   float_hours(rows[n].end_time - rows[n].start_time))
    ELSE total_hours(rows, n - 1)

\* the names of the categories of the day's events
category_names(rows) ==
    {Categories[rows[i].category_id] :
        i \in {k \in DOMAIN rows : rows[k].category_id \in DOMAIN Categories}}

\* percentage > 0.6, with percentage = hours / total_hours
dominant(hours, total) == float_over_six_tenths(hours, total)

\* _check_balance_rule once the events of the day are read, in the order
\* of the rows
balance_rule_over(sugs, t, user_id, date, rows, total) ==
    IF rows = <<>> \/ total = Float(0, 0) THEN <<>>
    ELSE LET over == {n \in category_names(rows) :
                        dominant(category_hours(rows, Len(rows), n), total)}
         IN  IF /\ over /= {}
                /\ ~suggestion_exists(sugs, t, user_id, "balance_day",
                                      StartOfDay(date), Nothing)
             THEN <<create_balance_suggestion(user_id,
                        CHOOSE n \in over : TRUE, StartOfDay(date), t)>>
             ELSE <<>>

\* the rows of the day for the balance rule
balance_rows(evs, user_id, date, tie) ==
    OrderById(rule_day_events(evs, user_id, date), tie)

\* RulesEngineService._check_balance_rule: the suggestions to add
check_balance_rule(evs, sugs, t, user_id, date, tie) ==
    balance_rule_over(sugs, t, user_id, date,
        balance_rows(evs, user_id, date, tie),
        total_hours(balance_rows(evs, user_id, date, tie),
                    Len(balance_rows(evs, user_id, date, tie))))

\* the loop of _check_postponement_rule over the events from index i on
RECURSIVE postponed_from(_, _, _, _, _)
postponed_from(sugs, t, user_id, recent, i) ==
    IF i > Len(recent) THEN <<>>
    ELSE (IF /\ recent[i].updated_at - recent[i].created_at > MinutesPerDay
             /\ recent[i].is_flexible
             /\ ~suggestion_exists(sugs, t, user_id, "move_event",
                                   recent[i].start_time, Some(recent[i].id))
          THEN <<create_move_suggestion(user_id, recent[i], t)>>
          ELSE <<>>)
         \o postponed_from(sugs, t, user_id, recent, i + 1)

\* RulesEngineService._check_postponement_rule: the suggestions to add
check_postponement_rule(evs, sugs, t, user_id, tie) ==
    postponed_from(sugs, t, user_id,
        OrderById({e \in evs :
                      /\ e.user_id = user_id
                      /\ e.updated_at >= t - POSTPONEMENT_WINDOW_DAYS * MinutesPerDay
                      /\ e.status /= "cancelled"
                      /\ e.status /= "completed"}, tie),
        1)

\* db.add for each suggestion, then commit: the rows stored, in order
stored_rows(new, next, t) ==
    [i \in DOMAIN new |-> StoredSuggestion(new[i], next + i - 1, t)]

Range(seq) == {seq[i] : i \in DOMAIN seq}

\* the end of generate_suggestions_for_user: rows are what is returned
commit_suggestions(swept, rows, next) ==
    [returned |-> rows,
     suggestions |-> swept \cup Range(rows),
     next_id |-> next + Len(rows)]

\* generate_suggestions_for_user after the cleanup: swept is the store
rules_after_cleanup(evs, swept, t, next, user_id, date, tie) ==
    commit_suggestions(swept,
        stored_rows(check_break_rule(evs, swept, t, user_id, date, tie)
                      \o check_balance_rule(evs, swept, t, user_id, date, tie)
                      \o check_postponement_rule(evs, swept, t, user_id, tie),
                    next, t),
        next)

\* RulesEngineService.generate_suggestions_for_user at time t; date is
\* Nothing when the caller gives none:
\* [returned, suggestions (the store afterwards), next_id]
generate_suggestions_for_user(evs, sugs, t, next, user_id, date, tie) ==
    rules_after_cleanup(evs, cleanup_expired_suggestions(sugs, t, user_id),
        t, next, user_id, IF date = Nothing THEN t ELSE date[1], tie)

\* the rank of the priority column in an ordering
PriorityRank(priority) ==
    CASE priority = "high" -> 3
      [] priority = "medium" -> 2
      [] priority = "low" -> 1

order_by_created_only(a, b) == a.created_at > b.created_at

\* order_by(priority.desc(), created_at.desc()): a comes before b
order_by_priority_created(a, b) ==
    \/ PriorityRank(a.priority) > PriorityRank(b.priority)
    \/ /\ PriorityRank(a.priority) = PriorityRank(b.priority)
       /\ a.created_at > b.created_at

\* the rows of a set in the order of get_active_suggestions; rows that the
\* ordering does not separate come by id, one way or the other
RECURSIVE active_order(_, _)
active_order(S, tie) ==
    IF S = {} THEN <<>>
    ELSE LET top == {a \in S : \A b \in S : ~order_by_priority_created(b, a)}
             e == CHOOSE x \in top : \A y \in top :
                      IF tie = "lo" THEN x.id <= y.id ELSE y.id <= x.id
         IN  <<e>> \o active_order(S \ {e}, tie)

\* the rows of a set in the order order_by(created_at.desc())
RECURSIVE created_order(_, _)
created_order(S, tie) ==
    IF S = {} THEN <<>>
    ELSE LET top == {a \in S : \A b \in S : b.created_at <= a.created_at}
             e == CHOOSE x \in top : \A y \in top :
                      IF tie = "lo" THEN x.id <= y.id ELSE y.id <= x.id
         IN  <<e>> \o created_order(S \ {e}, tie)

pending_filter(s, user_id, t) ==
    s.user_id = user_id /\ s.status = "pending"

\* the filter of the query of get_active_suggestions
active_filter(s, user_id, t) ==
    s.user_id = user_id /\ s.status = "pending" /\ s.expires_at > t

\* the query of get_active_suggestions, on the store after the cleanup
active_query(swept, t, user_id, tie) ==
    [returned |-> active_order({s \in swept : active_filter(s, user_id, t)},
                               tie),
     suggestions |-> swept]

\* RulesEngineService.get_active_suggestions at time t:
\* [returned, suggestions (the store afterwards)]
get_active_suggestions(sugs, t, user_id, tie) ==
    active_query(cleanup_expired_suggestions(sugs, t, user_id), t, user_id, tie)

\* GET /api/suggestions/ with a status filter (Nothing when absent)
get_suggestions(sugs, t, user_id, status, tie) ==
    IF status = Nothing \/ status = Some("pending")
    THEN get_active_suggestions(sugs, t, user_id, tie)
    ELSE [returned |-> created_order(
                           {s \in sugs : /\ s.user_id = user_id
                                         /\ s.status = status[1]}, tie),
          suggestions |-> sugs]

\* an update that does not look at the owner
update_suggestion_status_any_owner(sugs, suggestion_id, user_id, status) ==
    { IF s.id = suggestion_id THEN [s EXCEPT !.status = status] ELSE s :
        s \in sugs }

\* an update that reaches every suggestion of the owner
update_suggestion_status_all_owned(sugs, suggestion_id, user_id, status) ==
    IF \E s \in sugs : s.id = suggestion_id /\ s.user_id = user_id
    THEN { IF s.user_id = user_id THEN [s EXCEPT !.status = status] ELSE s :
             s \in sugs }
    ELSE sugs

\* RulesEngineService.update_suggestion_status: the store afterwards
update_suggestion_status(sugs, suggestion_id, user_id, status) ==
    { IF s.id = suggestion_id /\ s.user_id = user_id
      THEN [s EXCEPT !.status = status]
      ELSE s : s \in sugs }

\* RulesEngineService.get_suggestion_by_id: the row, or Nothing
get_suggestion_by_id(sugs, suggestion_id, user_id) ==
    IF \E s \in sugs : s.id = suggestion_id /\ s.user_id = user_id
    THEN Some(CHOOSE s \in sugs : s.id = suggestion_id /\ s.user_id = user_id)
    ELSE Nothing

(***************************************************************************)
(* The rules engine's environment: events, clock and calls                 *)
(***************************************************************************)
\* the store holds at most this many suggestions
MaxSuggestions == 3

\* the clock advances at most this many times
MaxClockTicks == 3

\* one advance of the clock: half a day
TickMinutes == MinutesPerDay \div 2

\* the clock when the first call is made
StartOfClock == At(0, 9, 0)

RuleEvent(id, user_id, start_time, end_time, category_id, is_flexible, created_at, updated_at) ==
    [Event(id, user_id, start_time, end_time, NoLocation) EXCEPT
        !.category_id = category_id, !.is_flexible = is_flexible,
        !.created_at = created_at, !.updated_at = updated_at]

RulesEvents ==
    { \* two separate blocks of three hours on day 0
      RuleEvent(1, 1, At(0, 8, 0), At(0, 11, 0), 1, FALSE, 0, 0),
      RuleEvent(2, 1, At(0, 13, 0), At(0, 16, 0), 1, FALSE, 0, 0),
      \* a block on day 1
      RuleEvent(3, 1, At(1, 8, 0), At(1, 11, 30), 2, FALSE, 0, 0),
      \* modified more than a day after its creation, starts on day 1; its
      \* category has no row
      RuleEvent(5, 1, At(1, 16, 0), At(1, 17, 0), 3, TRUE,
                At(0 - 2, 9, 0), At(0, 8, 0)),
      \* another user's block
      RuleEvent(6, 2, At(0, 9, 0), At(0, 12, 0), 1, FALSE, 0, 0) }

Users == {1, 2}
DateInputs == {Nothing, Some(At(1, 9, 0))}
StatusFilters == {Nothing, Some("pending"), Some("expired")}
\* the statuses the PATCH calls of the model set
SuggestionStatuses == {"accepted"}

(***************************************************************************)
(* Operations of the rules engine                                          *)
(***************************************************************************)
\* POST /api/suggestions/generate
GenerateSuggestions(user_id, date, tie) ==
    /\ last.op = "none"
    /\ LET r == generate_suggestions_for_user(events, suggestions, now,
                                              next_id, user_id, date, tie)
       IN  /\ Cardinality(r.suggestions) <= MaxSuggestions
           /\ suggestions' = r.suggestions
           /\ next_id' = r.next_id
           /\ last' = [op |-> "generate", user_id |-> user_id, date |-> date,
                       status |-> Nothing, returned |-> r.returned]
    /\ UNCHANGED <<travel_cache, tcall, events, result, now>>

\* GET /api/suggestions/
GetSuggestions(user_id, status, tie) ==
    /\ last.op = "none"
    /\ LET r == get_suggestions(suggestions, now, user_id, status, tie)
       IN  /\ suggestions' = r.suggestions
           /\ last' = [op |-> "get_suggestions", user_id |-> user_id,
                       date |-> Nothing, status |-> status,
                       returned |-> r.returned]
    /\ UNCHANGED <<travel_cache, tcall, events, result, now, next_id>>

\* PATCH /api/suggestions/{suggestion_id}
UpdateSuggestion(suggestion_id, user_id, status) ==
    /\ last.op = "none"
    /\ suggestions' = update_suggestion_status(suggestions, suggestion_id,
                                               user_id, status)
    /\ UNCHANGED <<travel_cache, tcall, events, result, now, next_id, last>>

\* the response of the last call has been delivered
ReturnSuggestions ==
    /\ last.op /= "none"
    /\ last' = NoCall
    /\ UNCHANGED <<travel_cache, tcall, events, result, suggestions, now,
                   next_id>>

\* time passes
Tick ==
    /\ last.op = "none"
    /\ now < StartOfClock + MaxClockTicks * TickMinutes
    /\ now' = now + TickMinutes
    /\ UNCHANGED <<travel_cache, tcall, events, result, suggestions, next_id,
                   last>>

InitRules ==
    /\ travel_cache = EmptyCache
    /\ tcall = NoCall
    /\ events = {}
    /\ result = NoCall
    /\ suggestions = {}
    /\ now = StartOfClock
    /\ next_id = 1
    /\ last = NoCall

NextRules ==
    \/ \E e \in RulesEvents : CreateEvent(e)
    \/ \E e \in RulesEvents : DeleteEvent(e)
    \/ \E user_id \in Users, date \in DateInputs, tie \in {"lo", "hi"} :
           GenerateSuggestions(user_id, date, tie)
    \/ \E user_id \in Users, status \in StatusFilters, tie \in {"lo", "hi"} :
           GetSuggestions(user_id, status, tie)
    \/ \E s \in suggestions, user_id \in Users, status \in SuggestionStatuses :
           UpdateSuggestion(s.id, user_id, status)
    \/ ReturnSuggestions
    \/ Tick

SpecRules == InitRules /\ [][NextRules]_vars

(***************************************************************************)
(* The rules of one day: events of user 1 on day 0, suggestions asked for  *)
(* today                                                                   *)
(***************************************************************************)
Cancelled(e) == [e EXCEPT !.status = "cancelled"]

DayEvents ==
    { \* a block of exactly three hours, in three events
      RuleEvent(1, 1, At(0, 9, 0), At(0, 9, 10), 1, FALSE, 0, 0),
      RuleEvent(2, 1, At(0, 9, 10), At(0, 11, 50), 1, FALSE, 0, 0),
      RuleEvent(3, 1, At(0, 11, 50), At(0, 12, 0), 1, FALSE, 0, 0),
      \* an hour of work and forty minutes of personal time
      RuleEvent(4, 1, At(0, 13, 0), At(0, 14, 0), 1, FALSE, 0, 0),
      RuleEvent(5, 1, At(0, 14, 40), At(0, 15, 20), 2, FALSE, 0, 0),
      \* three and a half hours half an hour later, and the same cancelled
      RuleEvent(6, 1, At(0, 15, 50), At(0, 19, 20), 2, FALSE, 0, 0),
      Cancelled(RuleEvent(7, 1, At(0, 15, 50), At(0, 19, 20), 2, FALSE, 0, 0)) }

NextDay ==
    \/ \E e \in DayEvents : CreateEvent(e)
    \/ \E e \in DayEvents : DeleteEvent(e)
    \/ \E tie \in {"lo", "hi"} : GenerateSuggestions(1, Nothing, tie)
    \/ ReturnSuggestions

SpecDay == InitRules /\ [][NextDay]_vars

(***************************************************************************)
(* Properties of the rules engine                                          *)
(***************************************************************************)
Generated == last.op = "generate"
ListedActive ==
    /\ last.op = "get_suggestions"
    /\ last.status \in {Nothing, Some("pending")}

\* a suggestion that is pending and not past its expiry at time t
PendingUnexpired(s, t) == s.status = "pending" /\ s.expires_at > t

\* C5: generate_suggestions_for_user called a second time, right after a
\* first call with the same arguments and with nothing changed in between,
\* returns an empty list, whatever the reference date
C5_SecondGenerateReturnsEmpty ==
    Generated =>
        \A tie \in {"lo", "hi"} :
            generate_suggestions_for_user(events, suggestions, now, next_id,
                last.user_id, last.date, tie).returned = <<>>

\* C6: a user never has two pending, unexpired take_break suggestions for
\* the same calendar day
C6_OneBreakPerDay ==
    \A a \in suggestions, b \in suggestions :
        ( /\ a.type = "take_break" /\ b.type = "take_break"
          /\ a.user_id = b.user_id
          /\ PendingUnexpired(a, now) /\ PendingUnexpired(b, now)
          /\ DateOf(a.created_at) = DateOf(b.created_at)
          /\ DateOf(a.suggested_time[1]) = DateOf(b.suggested_time[1]) )
        => a = b

\* C7: when generate_suggestions_for_user or a listing of a user's
\* suggestions, with any status filter, returns, that user has no suggestion
\* still pending with expires_at in the past
C7_SweptAfterGenerateAndListing ==
    (last.op \in {"generate", "get_suggestions"}) =>
        \A s \in suggestions :
            s.user_id = last.user_id =>
                ~(s.status = "pending" /\ s.expires_at < now)

\* C8: get_active_suggestions returns, once each, exactly the suggestions of
\* the user that are pending with expires_at later than now
C8_ActiveListIsPendingUnexpired ==
    ListedActive =>
        /\ Range(last.returned)
             = {s \in suggestions :
                  s.user_id = last.user_id /\ PendingUnexpired(s, now)}
        /\ \A i \in DOMAIN last.returned, j \in DOMAIN last.returned :
               last.returned[i] = last.returned[j] => i = j

\* C8 witness: a non-empty active list was returned to a user who also has an
\* accepted suggestion and an expired one
C8_ActiveListLeavesOthersOut ==
    /\ ListedActive
    /\ last.returned /= <<>>
    /\ \E s \in suggestions :
           s.user_id = last.user_id /\ s.status = "accepted"
    /\ \E s \in suggestions :
           s.user_id = last.user_id /\ s.status = "expired"

Calculated == tcall.op = "calculate_travel_time"

\* the call ran with the provider path enabled
ProviderEnabled ==
    IF tcall.use_api /= None THEN tcall.use_api = "True"
    ELSE instance_use_api(tcall.cfg)

\* C11: a call with an absent or empty location, or with two locations that
\* are identical after normalization, returns a zero duration, whatever the
\* cache holds and however the provider is configured
C11_ZeroForMissingOrSamePlace ==
    Calculated =>
        ( ( \/ tcall.origin \in {NoLocation, <<>>}
            \/ tcall.destination \in {NoLocation, <<>>}
            \/ Normalized[tcall.origin] = Normalized[tcall.destination] )
          => tcall.value = 0 )

\* two spellings of one place, asked with the provider answering and an
\* entry in the cache: zero minutes
C11_SamePlaceProviderOnCacheFilled ==
    /\ Calculated
    /\ tcall.origin = LocParisRaw /\ tcall.destination = LocParis
    /\ ProviderEnabled /\ tcall.api.ok
    /\ travel_cache /= EmptyCache
    /\ tcall.value = 0
\* C12: a call for two present locations with different normalized forms
\* leaves an entry under (normalize(origin), normalize(destination)); no call
\* of calculate_travel_time removes or changes an entry that was there; an
\* entry disappears only by clear_cache, which leaves the cache empty
C12_CacheOnlyGrowsUntilCleared ==
    [][ /\ tcall'.op = "calculate_travel_time" =>
            /\ \A k \in DOMAIN travel_cache :
                   k \in DOMAIN travel_cache' /\ travel_cache'[k] = travel_cache[k]
            /\ ( /\ tcall'.origin \notin {NoLocation, <<>>}
                 /\ tcall'.destination \notin {NoLocation, <<>>}
                 /\ Normalized[tcall'.origin] /= Normalized[tcall'.destination] )
               => <<Normalized[tcall'.origin], Normalized[tcall'.destination]>>
                      \in DOMAIN travel_cache'
        /\ tcall'.op = "clear_cache" => DOMAIN travel_cache' = {}
        /\ (\E k \in DOMAIN travel_cache : k \notin DOMAIN travel_cache')
               => tcall'.op = "clear_cache"
      ]_vars

\* a call has stored its pair next to an entry that an earlier call stored
C12_SecondEntryBesideFirst ==
    /\ Calculated
    /\ Cardinality(DOMAIN travel_cache) = 2
    /\ <<Normalized[tcall.origin], Normalized[tcall.destination]>>
           \in DOMAIN travel_cache
    /\ travel_cache[<<Normalized[tcall.origin], Normalized[tcall.destination]>>]
           = tcall.value
\* C13: when the provider path is enabled and the provider call fails (error,
\* no result, unsupported or unconfigured provider), calculate_travel_time
\* returns the heuristic estimate of the pair, exactly as a service whose
\* provider is switched off does, so that nothing of the failure reaches the
\* caller (find_best_slot included)
C13_ProviderFailureFallsBack ==
    [][ ( /\ tcall'.op = "calculate_travel_time"
          /\ IF tcall'.use_api /= None THEN tcall'.use_api = "True"
             ELSE instance_use_api(tcall'.cfg)
          /\ ~calculate_via_api(tcall'.cfg, tcall'.api).ok
          /\ tcall'.origin \notin {NoLocation, <<>>}
          /\ tcall'.destination \notin {NoLocation, <<>>}
          /\ Normalized[tcall'.origin] /= Normalized[tcall'.destination]
          /\ <<Normalized[tcall'.origin], Normalized[tcall'.destination]>>
                 \notin DOMAIN travel_cache )
        => /\ tcall'.value = estimate_travel_time(Normalized[tcall'.origin],
                                                  Normalized[tcall'.destination])
           /\ <<tcall'.value, travel_cache'>>
                  = calculate_travel_time(travel_cache, DefaultConfig,
                                          tcall'.origin, tcall'.destination,
                                          None, ApiFail)
      ]_vars

\* a call through an enabled provider path that failed came back with the
\* estimate of the heuristics, now the only entry of the cache
C13_FailedProviderEstimated ==
    /\ Calculated
    /\ ProviderEnabled
    /\ ~calculate_via_api(tcall.cfg, tcall.api).ok
    /\ tcall.origin = LocOfficeA /\ tcall.destination = LocNear
    /\ tcall.value = SAME_NEIGHBORHOOD
    /\ DOMAIN travel_cache = {<<Normalized[LocOfficeA], Normalized[LocNear]>>}
(***************************************************************************)
(* Properties of detect_travel_conflicts                                   *)
(***************************************************************************)
Detected == result.op = "detect_travel_conflicts"

\* the day's events of the call, in the order the query returned them
DetectedDay ==
    OrderByStart(get_day_events(events, result.user_id, result.date), result.tie)

\* the travel time the service gives between the locations of two events
PairTravel(a, b) == travel_service(travel_cache, a.location, b.location)[1]

PairGap(a, b) == b.start_time - a.end_time

ConflictsOf(conflicts) == {conflicts[k] : k \in DOMAIN conflicts}

\* C14: the conflicts of a call are those of the adjacent pairs of the day's
\* events, ordered by start, whose travel time exceeds the gap from the end
\* of the first to the start of the second; each record carries the travel
\* time, the shortage travel - gap and the new start first.end + travel;
\* fewer than two events give no conflict
C14_ConflictIffTravelExceedsGap ==
    Detected =>
        LET day == DetectedDay
            over == {i \in 1..(Len(day) - 1) :
                        PairTravel(day[i], day[i + 1]) > PairGap(day[i], day[i + 1])}
        IN  /\ Len(day) < 2 => result.conflicts = <<>>
            /\ Len(result.conflicts) = Cardinality(over)
            /\ ConflictsOf(result.conflicts) =
                   { [current_event |-> day[i].id,
                      next_event |-> day[i + 1].id,
                      travel_time_minutes |-> PairTravel(day[i], day[i + 1]),
                      shortage_minutes |->
                          PairTravel(day[i], day[i + 1]) - PairGap(day[i], day[i + 1]),
                      suggested_new_time |->
                          day[i].end_time + PairTravel(day[i], day[i + 1])] :
                     i \in over }

\* three events in a row: the first pair has a gap equal to its travel time
\* and is not reported, the second is an hour short, and the first and the
\* third, not adjacent, are not compared
C14_OnlySecondPairReported ==
    /\ Detected
    /\ Len(DetectedDay) = 3
    /\ DetectedDay[1].id = 1 /\ DetectedDay[2].id = 2 /\ DetectedDay[3].id = 3
    /\ result.conflicts =
           << [current_event |-> 2, next_event |-> 3,
               travel_time_minutes |-> DIFFERENT_CITY,
               shortage_minutes |-> DIFFERENT_CITY,
               suggested_new_time |-> At(0, 11, 10)] >>

\* C15: a conflict is reported only for a pair of events that both have a
\* non-empty location, whatever their times
C15_ConflictOnlyBetweenLocatedEvents ==
    Detected =>
        \A k \in DOMAIN result.conflicts :
            \A e \in events :
                e.id \in {result.conflicts[k].current_event,
                          result.conflicts[k].next_event}
                    => e.location \notin {NoLocation, <<>>}
(***************************************************************************)
(* Travel buffers of the slot find_best_slot returns                       *)
(***************************************************************************)
\* a located event of the user ends at or before the slot and cannot be left
\* in time, or starts at or after it and cannot be reached in time
LacksTravelBuffer(evs, cache, user_id, start_time, end_time, location) ==
    \E e \in evs :
        /\ e.user_id = user_id
        /\ e.location \notin {NoLocation, <<>>}
        /\ \/ /\ e.end_time <= start_time
              /\ e.end_time + travel_service(cache, e.location, location)[1]
                     > start_time
           \/ /\ e.start_time >= end_time
              /\ end_time + travel_service(cache, location, e.location)[1]
                     > e.start_time

\* C16: with a location in the request, a slot that a located event of the
\* user precedes or follows too closely for the travel time is unavailable,
\* so find_best_slot returns no such slot, preferred or searched
C16_ReturnedSlotHasTravelBuffers ==
    ( /\ Returned /\ result.res.success
      /\ result.rq.location \notin {NoLocation, <<>>} )
    => ~LacksTravelBuffer(events, travel_cache, result.rq.user_id,
                          result.res.scheduled_time[1],
                          result.res.scheduled_time[1] + result.rq.duration,
                          result.rq.location)
(***************************************************************************)
(* Properties of TimeConstraint.is_valid_time                              *)
(***************************************************************************)
Validated == result.op = "is_valid_time"

\* the hours of the three periods, the closing hour left out
PeriodHours(period) ==
    CASE period = "morning" -> 6..11
      [] period = "afternoon" -> 12..17
      [] period = "evening" -> 18..21

\* the periods a constraint asks for
PeriodsOf(c) ==
    {p \in {"morning", "afternoon", "evening"} :
        \/ p = "morning" /\ c.morning_only
        \/ p = "afternoon" /\ c.afternoon_only
        \/ p = "evening" /\ c.evening_only}

\* C17: is_valid_time is true exactly when the hour lies in every period the
\* constraint asks for (morning [6,12), afternoon [12,18), evening [18,22))
\* and the time of day is not before not_before and not after not_after,
\* both inclusive; a constraint with no clause accepts every timestamp and
\* one with two periods accepts none
C17_ValidIffEveryClauseHolds ==
    Validated =>
        LET c == result.constraints
            minute_of_day == result.dt % (24 * 60)
            hour == minute_of_day \div 60
        IN  /\ result.value <=>
                   /\ \A p \in PeriodsOf(c) : hour \in PeriodHours(p)
                   /\ c.not_before /= <<>> => minute_of_day >= c.not_before[1]
                   /\ c.not_after /= <<>> => minute_of_day <= c.not_after[1]
            /\ c = NoConstraint => result.value
            /\ Cardinality(PeriodsOf(c)) >= 2 => ~result.value

\* morning and afternoon asked together, at noon on the second day: refused
C17_TwoPeriodsRefuseNoon ==
    /\ Validated
    /\ result.constraints =
           [NoConstraint EXCEPT !.morning_only = TRUE, !.afternoon_only = TRUE]
    /\ result.dt = At(1, 12, 0)
    /\ ~result.value
(***************************************************************************)
(* Properties of the break, balance and postponement rules                 *)
(***************************************************************************)
\* the day the call was about
CallDay == StartOfDay(IF last.date = Nothing THEN now ELSE last.date[1])

\* the suggestions of one type that the call returned
ReturnedOfType(type) ==
    {s \in Range(last.returned) : s.type = type}

\* a suggestion of that type of the user was active before the call
HadActive(type) ==
    \E s \in suggestions \ Range(last.returned) :
        /\ s.user_id = last.user_id /\ s.type = type
        /\ PendingUnexpired(s, now)

\* the user's events of the day that are not cancelled, by start
WorkedDay ==
    OrderByStart({e \in events : /\ e.user_id = last.user_id
                                 /\ e.start_time >= CallDay
                                 /\ e.start_time < CallDay + MinutesPerDay
                                 /\ e.status /= "cancelled"}, "lo")

\* the minutes of the events i..j of a day
RECURSIVE MinutesOf(_, _, _)
MinutesOf(day, i, j) ==
    IF i > j THEN 0
    ELSE (day[i].end_time - day[i].start_time) + MinutesOf(day, i + 1, j)

\* some run of consecutive events, each at most 30 minutes after the one
\* before, adds up to three hours or more
HasLongBlock(day) ==
    \E i \in DOMAIN day : \E j \in i..Len(day) :
        /\ \A k \in i..(j - 1) : day[k + 1].start_time - day[k].end_time <= 30
        /\ MinutesOf(day, i, j) >= 3 * 60

\* C18: when the day's non-cancelled events hold a continuous block (gaps of
\* at most 30 minutes) of three hours or more and the user has no active
\* take_break suggestion, the call returns a take_break of medium priority
\* with a 15-minute break; when no block reaches three hours (cancelled
\* events left out) it returns no take_break
C18_BreakIffThreeHourBlock ==
    Generated =>
        /\ (HasLongBlock(WorkedDay) /\ ~HadActive("take_break"))
               => \E s \in ReturnedOfType("take_break") :
                      /\ s.priority = "medium"
                      /\ s.suggested_break_duration = <<15>>
        /\ ~HasLongBlock(WorkedDay) => ReturnedOfType("take_break") = {}

\* the minutes the day's non-cancelled events give to a category name;
\* events whose category has no row count for nothing
RECURSIVE CategoryMinutes(_, _, _)
CategoryMinutes(day, n, name) ==
    IF n = 0 THEN 0
    ELSE (IF /\ day[n].category_id \in DOMAIN Categories
             /\ Categories[day[n].category_id] = name
          THEN day[n].end_time - day[n].start_time ELSE 0)
         + CategoryMinutes(day, n - 1, name)

\* the categories whose share of the day's categorised time is over 60%
OverSixtyPercent(day) ==
    LET names == {Categories[c] : c \in DOMAIN Categories}
        total == CategoryMinutes(day, Len(day), "work")
                   + CategoryMinutes(day, Len(day), "personal")
    IN  {name \in names : 10 * CategoryMinutes(day, Len(day), name) > 6 * total}

\* C19: a call returns at most one balance_day suggestion; it returns one, of
\* low priority and naming the dominant category, when a category has more
\* than 60% of the day's time and no balance_day suggestion of the user is
\* active; it returns none when no category is over 60% (60% exactly is not)
C19_BalanceIffOverSixtyPercent ==
    Generated =>
        /\ Cardinality(ReturnedOfType("balance_day")) <= 1
        /\ (OverSixtyPercent(WorkedDay) /= {} /\ ~HadActive("balance_day"))
               => \E s \in ReturnedOfType("balance_day") :
                      /\ s.priority = "low"
                      /\ s.dominant_category /= <<>>
                      /\ s.dominant_category[1] \in OverSixtyPercent(WorkedDay)
        /\ OverSixtyPercent(WorkedDay) = {}
               => ReturnedOfType("balance_day") = {}

\* an active move_event suggestion for the event was stored before the call
HadActiveMove(e) ==
    \E s \in suggestions \ Range(last.returned) :
        /\ s.user_id = last.user_id /\ s.type = "move_event"
        /\ s.related_event_id = <<e.id>>
        /\ PendingUnexpired(s, now)

\* C20: a call returns a move_event suggestion (medium priority, related to
\* the event) for an event of the user exactly when the event was updated in
\* the last 7 days, more than 24 hours after its creation, is flexible, is
\* neither completed nor cancelled, and has no active move_event suggestion
\* of that user; every move_event returned is about such an event
C20_MoveIffPostponedAndNoneActive ==
    Generated =>
        /\ \A e \in {x \in events : x.user_id = last.user_id} :
               ( \E s \in ReturnedOfType("move_event") :
                     s.related_event_id = <<e.id>> /\ s.priority = "medium" )
               <=> ( /\ e.updated_at >= now - 7 * MinutesPerDay
                     /\ e.updated_at - e.created_at > MinutesPerDay
                     /\ e.is_flexible
                     /\ e.status \notin {"completed", "cancelled"}
                     /\ ~HadActiveMove(e) )
        /\ \A s \in ReturnedOfType("move_event") :
               \E e \in events :
                   e.user_id = last.user_id /\ s.related_event_id = <<e.id>>
(***************************************************************************)
(* The slot the search returns                                             *)
(***************************************************************************)
\* the earliest of a non-empty set of candidate starts: the first one in the
\* order of the scan
FirstInScanOrder(S) == CHOOSE t \in S : \A u \in S : t <= u

\* the search ran for a request without location and constraints whose
\* preferred slot is taken, and returned a slot
SearchedPlainBooked ==
    /\ Searched /\ result.res.success
    /\ result.rq.location = NoLocation
    /\ result.rq.constraints = NoConstraint
    /\ Overlaps(events, result.rq.user_id, result.rq.preferred_start,
                result.rq.duration)

CacheRestricted(cache, K) == [k \in K |-> cache[k]]

\* the outcome of a call: the success flag and the scheduled time
Outcome(res) == <<res.success, res.scheduled_time>>

\* C22: once find_best_slot has returned, the same request against the same
\* events returns the same success flag and the same scheduled time, with all
\* the cache entries the calls so far have left, with any part of them, and
\* with none
C22_SameOutcomeWhateverCache ==
    Returned =>
        \A K \in SUBSET DOMAIN travel_cache :
            Outcome(find_best_slot(events, CacheRestricted(travel_cache, K),
                                   result.rq).result)
                = Outcome(result.res)

\* a request with a location has been answered by the search while the cache
\* holds the travel times of two pairs of places
C22_SearchedWithCachedTravel ==
    /\ Searched /\ result.res.success
    /\ result.rq.location /= NoLocation
    /\ Cardinality(DOMAIN travel_cache) >= 2
    /\ \E e \in events : e.user_id = result.rq.user_id /\ e.location /= NoLocation
(***************************************************************************)
(* Requests that nothing satisfies: a booked window, or period flags that  *)
(* no hour satisfies                                                       *)
(***************************************************************************)
MorningAndEvening ==
    [NoConstraint EXCEPT !.morning_only = TRUE, !.evening_only = TRUE]

RefusalRequests ==
    { Request(1, 60, p, "medium", NoLocation, c, n, "lo") :
        p \in {At(0, 9, 0), At(0, 7, 0)},
        c \in {NoConstraint, MorningAndEvening, AfternoonOnly}, n \in {1, 2} }
    \cup
    { Request(1, 60, At(0, 10, 30), pr, LocNear, NoConstraint, 1, "lo") :
        pr \in {"medium", "high"} }

NextRefusal ==
    \/ \E e \in SchedulerEvents : CreateEvent(e)
    \/ \E e \in SchedulerEvents : DeleteEvent(e)
    \/ \E rq \in RefusalRequests : FindBestSlot(rq)
    \/ ReturnResult

SpecRefusal == InitSched /\ [][NextRefusal]_vars

\* the preferred slot of the answered request is accepted as it is: free,
\* valid, and without travel warnings unless the priority is high
PreferredAcceptable ==
    /\ PreferredFreeAndValid
    /\ PreferredWarnings = <<>> \/ result.rq.priority = "high"

\* C23: when the preferred slot is not acceptable and no candidate of the
\* window is both valid and available, find_best_slot returns the failure
\* result: success false, no scheduled time and the "no slot" message
C23_NothingAcceptableFails ==
    ( /\ Returned
      /\ ~PreferredAcceptable
      /\ AvailableCandidates(events, travel_cache, result.rq) = {} )
    => /\ ~result.res.success
       /\ result.res.scheduled_time = Nothing
       /\ result.res.message = "no_slot_available"

\* one event books 08:00-20:00 of the only day of the window: the request
\* for 09:00 without constraints is refused
C23_BookedWindowRefused ==
    /\ Returned /\ ~result.res.success
    /\ result.rq.constraints = NoConstraint
    /\ result.rq.preferred_start = At(0, 9, 0)
    /\ result.rq.search_days = 1
    /\ \E e \in events : /\ e.user_id = 1
                         /\ e.start_time = At(0, 8, 0)
                         /\ e.end_time = At(0, 20, 0)
(***************************************************************************)
(* The routes of /smart-schedule (routes/smart_scheduling.py)              *)
(***************************************************************************)
IsDigit(c) == c \in {"0", "1", "2", "3", "4", "5", "6", "7", "8", "9"}

DigitValue(c) ==
    CASE c = "0" -> 0 [] c = "1" -> 1 [] c = "2" -> 2 [] c = "3" -> 3
      [] c = "4" -> 4 [] c = "5" -> 5 [] c = "6" -> 6 [] c = "7" -> 7
      [] c = "8" -> 8 [] c = "9" -> 9

\* time.fromisoformat on the strings of the model, "HH:MM" or malformed:
\* the time of day in minutes, or a ValueError
time_fromisoformat(s) ==
    IF /\ Len(s) = 5 /\ s[3] = ":"
       /\ \A i \in {1, 2, 4, 5} : IsDigit(s[i])
       /\ DigitValue(s[1]) * 10 + DigitValue(s[2]) < 24
       /\ DigitValue(s[4]) * 10 + DigitValue(s[5]) < 60
    THEN [ok |-> TRUE,
          time |-> (DigitValue(s[1]) * 10 + DigitValue(s[2])) * MinutesPerHour
                   + DigitValue(s[4]) * 10 + DigitValue(s[5])]
    ELSE [ok |-> FALSE, time |-> 0]

\* a body field that is absent or the empty string is falsy
Given(field) == field /= Nothing /\ field[1] /= <<>>

\* `time.fromisoformat(x) if x else None`
parse_bound(field) ==
    IF Given(field) THEN time_fromisoformat(field[1])
    ELSE [ok |-> TRUE, time |-> 0]

bound_value(field) ==
    IF Given(field) THEN Some(parse_bound(field).time) ELSE Nothing

\* the TimeConstraint both routes build from the body
body_constraints(body) ==
    [not_before |-> bound_value(body.not_before),
     not_after |-> bound_value(body.not_after),
     morning_only |-> body.morning_only,
     afternoon_only |-> body.afternoon_only,
     evening_only |-> body.evening_only]

DURATION_LE == 1440
SEARCH_DAYS_GE == 1
SEARCH_DAYS_LE == 30

\* a validation that looks at the duration only
request_errors_duration_only(body) ==
    IF body.duration_minutes > 0 /\ body.duration_minutes <= DURATION_LE
    THEN {} ELSE {"duration_minutes"}

\* the Field constraints of SmartScheduleRequest: the offending fields
request_errors(body) ==
    (IF body.duration_minutes > 0 /\ body.duration_minutes <= DURATION_LE
     THEN {} ELSE {"duration_minutes"})
    \cup
    (IF body.search_days >= SEARCH_DAYS_GE /\ body.search_days <= SEARCH_DAYS_LE
     THEN {} ELSE {"search_days"})

\* the status of a response: "ok", "request_validation_error" (the body does
\* not fit the request model, the handler did not run), "bad_request" (the
\* handler turned a ValueError into a 400) or "server_error" (an exception
\* the handler does not catch)
\* the response of a route that did not reach its service
Rejected(opname, body, status, fields) ==
    [op |-> opname, body |-> body, status |-> status, fields |-> fields,
     steps |-> <<>>]

\* POST /smart-schedule/find-best-slot: the body is validated against
\* SmartScheduleRequest before the handler runs; the handler parses the
\* bounds, then calls find_best_slot
find_best_slot_route(evs, cache, body) ==
    IF request_errors(body) /= {}
    THEN [response |-> Rejected("find_best_slot_route", body,
                                "request_validation_error", request_errors(body)),
          cache |-> cache]
    ELSE IF ~parse_bound(body.not_before).ok \/ ~parse_bound(body.not_after).ok
    THEN [response |-> Rejected("find_best_slot_route", body,
                                "bad_request", {}),
          cache |-> cache]
    ELSE LET r == find_best_slot(evs, cache,
                      Request(body.user_id, body.duration_minutes,
                              body.preferred_start, body.priority,
                              body.location, body_constraints(body),
                              body.search_days, body.tie))
         IN  [response |-> [op |-> "find_best_slot_route", body |-> body,
                            status |-> "ok", fields |-> {},
                            steps |-> <<"find_best_slot">>, res |-> r.result],
              cache |-> r.cache]

FindBestSlotRoute(body) ==
    /\ result.op = "none"
    /\ LET r == find_best_slot_route(events, travel_cache, body)
       IN  /\ result' = r.response
           /\ travel_cache' = r.cache
    /\ UNCHANGED <<tcall, events, suggestions, now, next_id, last>>

T0900 == <<"0", "9", ":", "0", "0">>
T1800 == <<"1", "8", ":", "0", "0">>
TMalformed == <<"9", "h">>

ScheduleBody(duration_minutes, preferred_start, not_before, search_days) ==
    [user_id |-> 1, duration_minutes |-> duration_minutes,
     preferred_start |-> preferred_start, priority |-> "medium",
     location |-> NoLocation, not_before |-> not_before, not_after |-> Nothing,
     morning_only |-> FALSE, afternoon_only |-> FALSE, evening_only |-> FALSE,
     search_days |-> search_days, tie |-> "lo"]

RouteBodies ==
    { ScheduleBody(d, At(0, 9, 0), nb, n) :
        d \in {-15, 0, 60, DURATION_LE + 1},
        nb \in {Nothing, Some(T0900), Some(TMalformed)},
        n \in {-1, 0, 1, 2, SEARCH_DAYS_LE + 1} }
\* the period reasons of validate_time_constraints, in the order of the code
period_reasons(body) ==
    LET hour == HourOf(body.test_time)
    IN  (IF body.morning_only /\ ~(MORNING_START <= hour /\ hour < MORNING_END)
         THEN <<"morning">> ELSE <<>>)
        \o (IF body.afternoon_only /\ ~(MORNING_END <= hour /\ hour < AFTERNOON_END)
            THEN <<"afternoon">> ELSE <<>>)
        \o (IF body.evening_only /\ ~(AFTERNOON_END <= hour /\ hour < EVENING_END)
            THEN <<"evening">> ELSE <<>>)

\* POST /smart-schedule/constraints/validate. A malformed bound is a
\* ValueError, answered 400. For an invalid time the handler collects the
\* reasons; its two boundary tests compare test_time.time() with the string
\* of the body, which raises a TypeError the handler does not catch
validate_time_constraints(body) ==
    IF ~parse_bound(body.not_before).ok \/ ~parse_bound(body.not_after).ok
    THEN [op |-> "validate_time_constraints", body |-> body,
          status |-> "bad_request", is_valid |-> FALSE, reasons |-> <<>>]
    ELSE IF is_valid_time(body_constraints(body), body.test_time)
    THEN [op |-> "validate_time_constraints", body |-> body,
          status |-> "ok", is_valid |-> TRUE, reasons |-> <<"all_satisfied">>]
    ELSE IF Given(body.not_before) \/ Given(body.not_after)
    THEN [op |-> "validate_time_constraints", body |-> body,
          status |-> "server_error", is_valid |-> FALSE, reasons |-> <<>>]
    ELSE [op |-> "validate_time_constraints", body |-> body,
          status |-> "ok", is_valid |-> FALSE, reasons |-> period_reasons(body)]

ValidateTimeConstraints(body) ==
    /\ result.op = "none"
    /\ result' = validate_time_constraints(body)
    /\ UNCHANGED <<travel_cache, tcall, events, suggestions, now, next_id, last>>

ValidateBodies ==
    { [not_before |-> nb, not_after |-> na, morning_only |-> m,
       afternoon_only |-> FALSE, evening_only |-> e, test_time |-> t] :
        nb \in {Nothing, Some(T0900)},
        na \in {Nothing, Some(T1800), Some(TMalformed)},
        m \in BOOLEAN, e \in BOOLEAN,
        t \in {At(0, 8, 0), At(0, 10, 0), At(0, 19, 0)} }

NextRoutes ==
    \/ \E e \in SchedulerEvents : CreateEvent(e)
    \/ \E e \in SchedulerEvents : DeleteEvent(e)
    \/ \E body \in RouteBodies : FindBestSlotRoute(body)
    \/ \E body \in ValidateBodies : ValidateTimeConstraints(body)
    \/ ReturnResult

SpecRoutes == InitSched /\ [][NextRoutes]_vars

\* the duration of the body is not positive or its search window is below
\* one day
Malformed(body) == body.duration_minutes <= 0 \/ body.search_days < SEARCH_DAYS_GE

\* C24: a request whose duration is not positive or whose search window is
\* negative (or zero) is answered with a validation error that names the
\* offending fields; find_best_slot is not called, nothing is read from the
\* events and nothing is computed into the travel cache
C24_MalformedRejectedBeforeSearch ==
    [][ ( /\ result.op = "none"
          /\ result'.op = "find_best_slot_route"
          /\ Malformed(result'.body) )
        => /\ result'.status = "request_validation_error"
           /\ result'.steps = <<>>
           /\ (result'.body.duration_minutes <= 0
                  => "duration_minutes" \in result'.fields)
           /\ (result'.body.search_days < SEARCH_DAYS_GE
                  => "search_days" \in result'.fields)
           /\ travel_cache' = travel_cache
           /\ events' = events ]_vars

\* a request for 60 minutes with a search window of -1 days has been rejected
\* while the user has events
C24_NegativeWindowRejected ==
    /\ result.op = "find_best_slot_route"
    /\ result.body.duration_minutes = 60
    /\ result.body.search_days = -1
    /\ result.status = "request_validation_error"
    /\ result.fields = {"search_days"}
    /\ \E e \in events : e.user_id = result.body.user_id
(***************************************************************************)
(* The reasons of /smart-schedule/constraints/validate                     *)
(***************************************************************************)
Reasons(r) == { r.reasons[i] : i \in DOMAIN r.reasons }

\* C29 as stated: 08:00 validated against not_before 09:00 and not_after
\* 18:00 is reported invalid, with the not-before and the not-after reason
C29_EightReportedWithBothBounds ==
    ( /\ result.op = "validate_time_constraints"
      /\ result.body.test_time = At(0, 8, 0)
      /\ result.body.not_before = Some(T0900)
      /\ result.body.not_after = Some(T1800)
      /\ ~result.body.morning_only /\ ~result.body.evening_only )
    => /\ result.status = "ok"
       /\ ~result.is_valid
       /\ "not_before" \in Reasons(result)
       /\ "not_after" \in Reasons(result)
(***************************************************************************)
(* Suggestions by id: PATCH and GET /api/suggestions/{id} on the           *)
(* suggestions the rules generate for two users                            *)
(***************************************************************************)
StatusEvents ==
    { RuleEvent(1, 1, At(0, 8, 0), At(0, 11, 0), 1, FALSE, 0, 0),
      RuleEvent(5, 1, At(0, 16, 0), At(0, 17, 0), 3, TRUE,
                At(0 - 2, 9, 0), At(0, 8, 0)),
      RuleEvent(6, 2, At(0, 9, 0), At(0, 12, 0), 1, FALSE, 0, 0) }

\* the ids the calls ask for: the stored ones and one that is never stored
SuggestionIds == 1..(MaxSuggestions + 1)

\* the statuses PATCH /api/suggestions/{id} sets
PatchStatuses == {"pending", "accepted", "rejected"}

\* update_suggestion_status as its callers see it: the row after the
\* commit, or None
UpdateSuggestionStatus(suggestion_id, user_id, status) ==
    /\ last.op = "none"
    /\ suggestions' = update_suggestion_status(suggestions, suggestion_id,
                                               user_id, status)
    /\ last' = [op |-> "update_suggestion_status",
                suggestion_id |-> suggestion_id, user_id |-> user_id,
                status |-> status,
                returned |-> get_suggestion_by_id(
                                 update_suggestion_status(suggestions,
                                     suggestion_id, user_id, status),
                                 suggestion_id, user_id)]
    /\ UNCHANGED <<travel_cache, tcall, events, result, now, next_id>>

GetSuggestionById(suggestion_id, user_id) ==
    /\ last.op = "none"
    /\ last' = [op |-> "get_suggestion_by_id",
                suggestion_id |-> suggestion_id, user_id |-> user_id,
                returned |-> get_suggestion_by_id(suggestions, suggestion_id,
                                                  user_id)]
    /\ UNCHANGED <<travel_cache, tcall, events, result, suggestions, now,
                   next_id>>

NextStatus ==
    \/ \E e \in StatusEvents : CreateEvent(e)
    \/ \E e \in StatusEvents : DeleteEvent(e)
    \/ \E user_id \in Users : GenerateSuggestions(user_id, Nothing, "lo")
    \/ \E id \in SuggestionIds, user_id \in Users, status \in PatchStatuses :
           UpdateSuggestionStatus(id, user_id, status)
    \/ \E id \in SuggestionIds, user_id \in Users : GetSuggestionById(id, user_id)
    \/ ReturnSuggestions

SpecStatus == InitRules /\ [][NextStatus]_vars

\* the call that is being answered asks by id
ById(call) == call.op \in {"update_suggestion_status", "get_suggestion_by_id"}

\* a stored suggestion has this id and this owner
Owned(sugs, suggestion_id, user_id) ==
    \E s \in sugs : s.id = suggestion_id /\ s.user_id = user_id

\* C25: update_suggestion_status and get_suggestion_by_id asked for an id
\* that no suggestion has, or that a suggestion of another user has, return
\* None and leave every stored suggestion as it was
C25_UnknownOrForeignIdNotFound ==
    [][ ( /\ last.op = "none" /\ ById(last')
          /\ ~Owned(suggestions, last'.suggestion_id, last'.user_id) )
        => /\ last'.returned = Nothing
           /\ suggestions' = suggestions ]_vars

\* user 2 has asked to accept a pending suggestion of user 1 and got None
C25_ForeignAcceptRefused ==
    /\ last.op = "update_suggestion_status"
    /\ last.user_id = 2 /\ last.status = "accepted"
    /\ last.returned = Nothing
    /\ \E s \in suggestions : /\ s.id = last.suggestion_id
                              /\ s.user_id = 1
                              /\ s.status = "pending"
\* two rows that differ in their status at most
SameButStatus(s, u) ==
    /\ DOMAIN s = DOMAIN u
    /\ \A f \in DOMAIN s \ {"status"} : s[f] = u[f]

\* C26: update_suggestion_status on a suggestion of the caller sets its
\* status to the given value, keeps every other field of the row and every
\* other row, returns the row, and a second identical update changes nothing
C26_UpdateSetsOnlyStatus ==
    [][ ( /\ last.op = "none"
          /\ last'.op = "update_suggestion_status"
          /\ Owned(suggestions, last'.suggestion_id, last'.user_id) )
        => /\ \A s \in suggestions :
                IF s.id = last'.suggestion_id
                THEN \E u \in suggestions' :
                        /\ SameButStatus(s, u)
                        /\ u.status = last'.status
                        /\ last'.returned = Some(u)
                ELSE s \in suggestions'
           /\ Cardinality(suggestions') = Cardinality(suggestions)
           /\ update_suggestion_status(suggestions', last'.suggestion_id,
                                       last'.user_id, last'.status)
                  = suggestions' ]_vars

\* user 1 has accepted one of their two suggestions; the other one is still
\* pending
C26_OneOfTwoAccepted ==
    /\ last.op = "update_suggestion_status"
    /\ last.user_id = 1 /\ last.status = "accepted"
    /\ last.returned /= Nothing
    /\ \E s \in suggestions : /\ s.user_id = 1
                              /\ s.id /= last.suggestion_id
                              /\ s.status = "pending"
(***************************************************************************)
(* Generating again after an acceptance: the calendar is given and does    *)
(* not change, the clock stands still                                      *)
(***************************************************************************)
InitAccept ==
    /\ travel_cache = EmptyCache
    /\ tcall = NoCall
    /\ events \in SUBSET StatusEvents
    /\ result = NoCall
    /\ suggestions = {}
    /\ now = StartOfClock
    /\ next_id = 1
    /\ last = NoCall

NextAccept ==
    \/ \E user_id \in Users : GenerateSuggestions(user_id, Some(now), "lo")
    \/ \E id \in SuggestionIds, user_id \in Users :
           UpdateSuggestionStatus(id, user_id, "accepted")
    \/ ReturnSuggestions

SpecAccept == InitAccept /\ [][NextAccept]_vars

\* C27 as stated: once a suggestion of the user has been accepted (the
\* others still pending), generating again for the same user and date on the
\* unchanged calendar creates no suggestion
C27_NothingNewAfterAcceptance ==
    [][ ( /\ last.op = "none"
          /\ last'.op = "generate"
          /\ \E s \in suggestions :
                 s.user_id = last'.user_id /\ s.status = "accepted"
          /\ \A s \in suggestions :
                 s.user_id = last'.user_id => s.status \in {"pending", "accepted"} )
        => /\ last'.returned = <<>>
           /\ suggestions' = suggestions ]_vars
(***************************************************************************)
(* The operations that only read the events: find_best_slot,               *)
(* detect_travel_conflicts, optimize_event_sequence and                    *)
(* generate_suggestions_for_user on one calendar                           *)
(***************************************************************************)
ReadOnlyEvents ==
    { Event(1, 1, At(0, 9, 0), At(0, 10, 0), LocOfficeA),
      Event(2, 1, At(0, 10, 5), At(0, 10, 10), LocOfficeB),
      Event(3, 1, At(0, 10, 10), At(0, 11, 0), LocParis),
      RuleEvent(8, 1, At(0, 13, 0), At(0, 16, 0), 1, FALSE, 0, 0) }

ReadOnlyRequests ==
    { Request(1, 60, At(0, 9, 0), "medium", loc, NoConstraint, 1, "lo") :
        loc \in {NoLocation, LocNear} }

\* POST /smart-schedule/optimize-sequence
OptimizeEventSequence(user_id, date, tie) ==
    /\ result.op = "none"
    /\ LET r == optimize_event_sequence(events, travel_cache, user_id, date, tie)
       IN  /\ result' = [op |-> "optimize_event_sequence", user_id |-> user_id,
                         date |-> date, tie |-> tie, res |-> r.result]
           /\ travel_cache' = r.cache
    /\ UNCHANGED <<tcall, events, suggestions, now, next_id, last>>

NextReadOnly ==
    \/ \E e \in ReadOnlyEvents : CreateEvent(e)
    \/ \E rq \in ReadOnlyRequests : FindBestSlot(rq)
    \/ DetectTravelConflicts(1, At(0, 12, 0), "lo")
    \/ OptimizeEventSequence(1, At(0, 12, 0), "lo")
    \/ GenerateSuggestions(1, Nothing, "lo")
    \/ ReturnResult
    \/ ReturnSuggestions

SpecReadOnly == InitRules /\ [][NextReadOnly]_vars

ScoreCandidates == {At(0, 9, 0), At(0, 10, 0), At(0, 10, 20), At(1, 9, 0), At(3, 9, 0)}
ScorePreferred == {At(0, 9, 0), At(0, 10, 0)}
ScoreOffsets == {0, 1, 3}
ScoreLocations == {NoLocation, <<>>, LocNear, LocOfficeA}

CalculateSlotScore(start_time, preferred_start, day_offset, location) ==
    /\ result.op = "none"
    /\ LET r == calculate_slot_score(events, travel_cache, 1, start_time,
                                     start_time + MinutesPerHour, location,
                                     preferred_start, day_offset)
       IN  /\ result' = [op |-> "calculate_slot_score", user_id |-> 1,
                         start_time |-> start_time,
                         preferred_start |-> preferred_start,
                         day_offset |-> day_offset, location |-> location,
                         score |-> r.score]
           /\ travel_cache' = r.cache
    /\ UNCHANGED <<tcall, events, suggestions, now, next_id, last>>

ScoreEvents ==
    { Event(1, 1, At(0, 9, 0), At(0, 10, 0), LocOfficeA),
      Event(4, 2, At(0, 9, 0), At(0, 11, 0), LocNear),
      Event(5, 1, At(0, 11, 0), At(0, 12, 0), LocParisF),
      Event(7, 1, At(0, 9, 30), At(0, 10, 0), NoLocation),
      Event(9, 1, At(3, 11, 0), At(3, 12, 0), LocNear) }

NextScore ==
    \/ \E e \in ScoreEvents : CreateEvent(e)
    \/ \E e \in ScoreEvents : DeleteEvent(e)
    \/ \E t \in ScoreCandidates, p \in ScorePreferred, d \in ScoreOffsets,
          loc \in ScoreLocations : CalculateSlotScore(t, p, d, loc)
    \/ ReturnResult

SpecScore == InitSched /\ [][NextScore]_vars

Scored == result.op = "calculate_slot_score"

\* the minutes between two places by the heuristics
HeuristicMinutes(a, b) ==
    IF Normalized[a] = Normalized[b] THEN 0
    ELSE Estimated[<<Normalized[a], Normalized[b]>>]

\* the located events of the user that start on the day of t within 30
\* minutes of a place; none when no place is given
Clustered(user_id, t, location) ==
    IF ~Present(location) THEN {}
    ELSE { e \in events :
             /\ e.user_id = user_id
             /\ Present(e.location)
             /\ DateOf(e.start_time) = DateOf(t)
             /\ HeuristicMinutes(location, e.location) <= NEARBY_MAX_MINUTES }

\* the time penalty of the scored candidate, in minutes (sixtieths of a point)
ProximityPenalty ==
    IF AbsVal(result.start_time - result.preferred_start)
           <= MAX_TIME_PENALTY * MinutesPerHour
    THEN AbsVal(result.start_time - result.preferred_start)
    ELSE MAX_TIME_PENALTY * MinutesPerHour

\* C30: the score is 100 - min(hours between candidate and preferred start,
\* 50) - 5 * day offset + 10 * the number of clustered events (in sixtieths
\* of a point: hours are minutes); so the penalty is at most 50, and a
\* candidate at the preferred start scores more than the one an hour later
\* with the same day offset and the same number of clustered events
C30_ScoreFormula ==
    Scored =>
        /\ result.score
             = 100 * MinutesPerHour - ProximityPenalty
               - 5 * result.day_offset * MinutesPerHour
               + 10 * Cardinality(Clustered(result.user_id, result.start_time,
                                            result.location)) * MinutesPerHour
        /\ ProximityPenalty <= 50 * MinutesPerHour
        /\ ( /\ result.start_time = result.preferred_start
             /\ Cardinality(Clustered(result.user_id,
                    result.start_time + MinutesPerHour, result.location))
                  = Cardinality(Clustered(result.user_id, result.start_time,
                                          result.location)) )
           => calculate_slot_score(events, travel_cache, result.user_id,
                  result.start_time + MinutesPerHour,
                  result.start_time + 2 * MinutesPerHour, result.location,
                  result.preferred_start, result.day_offset).score
                < result.score

\* a candidate 72 hours after the preferred start, on day offset 3, with one
\* event of its day at the requested place, has been scored
\* 100 - 50 - 15 + 10 = 45 points
C30_CappedClusteredScored ==
    /\ Scored
    /\ result.start_time - result.preferred_start = 72 * MinutesPerHour
    /\ result.day_offset = 3
    /\ Cardinality(Clustered(result.user_id, result.start_time,
                             result.location)) = 1
    /\ result.score = 45 * MinutesPerHour
(***************************************************************************)
(* The grid of the slots the search returns                                *)
(***************************************************************************)
\* the search answered the request with a slot
Optimized == Returned /\ result.res.success /\ result.res.optimization_applied

\* the day of the returned slot, counted from the preferred date
ReturnedOffset ==
    DateOf(result.res.scheduled_time[1]) - DateOf(result.rq.preferred_start)

\* C31: a slot returned with optimization_applied starts on a quarter of an
\* hour of a day at offset 0..search_days-1 from the preferred date, at or
\* after 08:00 (on day 0 at or after the later of 08:00 and the preferred
\* start's full hour), and ends by 20:00 of that day
C31_SearchedSlotOnGrid ==
    Optimized =>
        LET t == result.res.scheduled_time[1]
        IN  /\ TimeOfDay(t) % 15 = 0
            /\ ReturnedOffset \in 0..(result.rq.search_days - 1)
            /\ TimeOfDay(t) >= 8 * MinutesPerHour
            /\ (ReturnedOffset = 0 =>
                   TimeOfDay(t) >= HourOf(result.rq.preferred_start) * MinutesPerHour)
            /\ t + result.rq.duration <= StartOfDay(t) + 20 * MinutesPerHour

\* the preferred 21:00 of day 0 is outside 10:00-12:00: the search returns
\* 10:00 of the next day
C31_NextDayTenReturned ==
    /\ Optimized
    /\ result.rq.preferred_start = At(0, 21, 0)
    /\ result.res.scheduled_time = <<At(1, 10, 0)>>
(***************************************************************************)
(* Constrained requests of every priority, with and without a place        *)
(***************************************************************************)
ConstrainedRequests ==
    { Request(1, d, p, pr, loc, c, 2, "lo") :
        d \in {15}, p \in {At(0, 9, 0), At(0, 10, 30)},
        pr \in {"medium", "high"}, loc \in {NoLocation, LocNear},
        c \in {TenToNoon, AfternoonOnly, MorningAndEvening} }

NextConstrained ==
    \/ \E e \in SchedulerEvents : CreateEvent(e)
    \/ \E e \in SchedulerEvents : DeleteEvent(e)
    \/ \E rq \in ConstrainedRequests : FindBestSlot(rq)
    \/ ReturnResult

SpecConstrained == InitSched /\ [][NextConstrained]_vars

\* the hours [from, to) a period flag allows
InHours(t, from, to) ==
    TimeOfDay(t) >= from * MinutesPerHour /\ TimeOfDay(t) < to * MinutesPerHour

\* the constraints of a request, clause by clause, at the time t
Satisfies(c, t) ==
    /\ c.morning_only => InHours(t, 6, 12)
    /\ c.afternoon_only => InHours(t, 12, 18)
    /\ c.evening_only => InHours(t, 18, 22)
    /\ c.not_before /= Nothing => TimeOfDay(t) >= c.not_before[1]
    /\ c.not_after /= Nothing => TimeOfDay(t) <= c.not_after[1]

\* C32: the start of every slot find_best_slot returns, preferred or
\* searched, for any priority, satisfies the time constraints of the request
C32_ReturnedSlotSatisfiesConstraints ==
    (Returned /\ result.res.success) =>
        /\ Satisfies(result.rq.constraints, result.res.scheduled_time[1])
        /\ is_valid_time(result.rq.constraints, result.res.scheduled_time[1])

\* a high-priority request for 10:30 between 10:00 and 12:00 got its
\* preferred slot with a travel warning
C32_WarnedPreferredInsideBounds ==
    /\ PreferredAccepted
    /\ result.rq.priority = "high"
    /\ result.rq.constraints = TenToNoon
    /\ result.res.travel_warnings /= <<>>
(***************************************************************************)
(* Move suggestions of one day for one event                               *)
(***************************************************************************)
\* C33 as stated: among the suggestions created on one calendar day, at most
\* one pending, unexpired move_event exists for a user and a related event,
\* wherever the event itself starts
C33_OnePendingMovePerEventAndDay ==
    \A s1 \in suggestions, s2 \in suggestions :
        ( /\ s1.type = "move_event" /\ s2.type = "move_event"
          /\ s1.user_id = s2.user_id
          /\ s1.related_event_id = s2.related_event_id
          /\ DateOf(s1.created_at) = DateOf(s2.created_at)
          /\ PendingUnexpired(s1, now) /\ PendingUnexpired(s2, now) )
        => s1 = s2
(***************************************************************************)
(* The travel service with the provider disabled in every call             *)
(***************************************************************************)
\* no provider configured, or configured and refused by use_api=False
DisabledModes ==
    { <<DefaultConfig, None>>,
      <<DefaultConfig, "False">>,
      <<[api_provider |-> "google", api_key |-> "k", use_api |-> TRUE], "False">> }

NextDisabled ==
    \/ \E mode \in DisabledModes, origin \in CacheLocations,
          destination \in CacheLocations, api \in ApiOutcomes :
              CalculateTravelTime(mode, origin, destination, api)
    \/ ClearCache

SpecDisabled == InitTravel /\ [][NextDisabled]_vars

\* what the heuristics give for a pair of places on their own: no travel
\* for a missing place or twice the same place, the estimate otherwise
HeuristicValue(origin, destination) ==
    IF ~Present(origin) \/ ~Present(destination) THEN 0
    ELSE IF normalize_location(origin) = normalize_location(destination) THEN 0
    ELSE estimate_travel_time(normalize_location(origin),
                              normalize_location(destination))

\* C34: with the provider disabled in every call, each calculate_travel_time
\* call, after any calls and clear_cache, returns what the heuristics return
\* for the pair with an empty cache
C34_DisabledCallsReturnHeuristic ==
    Calculated =>
        /\ tcall.value = HeuristicValue(tcall.origin, tcall.destination)
        /\ tcall.value = calculate_travel_time(EmptyCache, tcall.cfg,
                             tcall.origin, tcall.destination, tcall.use_api,
                             tcall.api)[1]

\* a call has been answered from a cache that holds its pair and another
C34_AnsweredBesideAnotherEntry ==
    /\ Calculated
    /\ tcall.value > 0
    /\ CacheKey(tcall.origin, tcall.destination) \in DOMAIN travel_cache
    /\ Cardinality(DOMAIN travel_cache) = 2

\* C37 as stated: a call with the provider disabled returns the heuristic
\* value of its pair after any earlier calls, provider-enabled calls of other
\* instances for the same pair included
C37_DisabledCallAfterEnabledCalls ==
    ( /\ Calculated
      /\ ~(IF tcall.use_api /= None THEN tcall.use_api = "True"
           ELSE instance_use_api(tcall.cfg)) )
    => tcall.value = HeuristicValue(tcall.origin, tcall.destination)

(***************************************************************************)
(* The length of the bounded search                                        *)
(***************************************************************************)
\* requests of one minute, a quarter of an hour and thirteen hours, over
\* the least and the greatest search_days the route admits and two in between
BoundedRequests ==
    { Request(1, d, p, "medium", NoLocation, NoConstraint, n, "lo") :
        d \in {1, 15, 780}, p \in {At(0, 8, 30), At(0, 10, 30)},
        n \in {SEARCH_DAYS_GE, 2, MaxSearchDays, SEARCH_DAYS_LE} }

NextBounded ==
    \/ \E e \in WindowEvents : CreateEvent(e)
    \/ \E e \in WindowEvents : DeleteEvent(e)
    \/ \E rq \in BoundedRequests : FindBestSlot(rq)
    \/ ReturnResult

SpecBounded == InitSched /\ [][NextBounded]_vars

\* the passes of the while loop of _find_optimal_slot that the returned call
\* made over the events of its user
CandidatesEvaluated ==
    find_optimal_slot(events, travel_cache, result.rq).visited

\* C35: find_best_slot ends with a success that carries a time or with the
\* failure result, and when it searched, the search evaluated at most
\* search_days * 48 candidates
C35_SearchBoundedThenOutcome ==
    Returned =>
        /\ \/ result.res.success /\ result.res.scheduled_time /= Nothing
           \/ result.res = NoSlotResult
        /\ Searched =>
               CandidatesEvaluated <= result.rq.search_days * SlotsPerDay

\* a search of one-minute slots evaluated all 48 candidates of each of
\* thirty days
C35_EveryQuarterOfEveryDayEvaluated ==
    /\ Searched
    /\ result.rq.duration = 1
    /\ result.rq.search_days = SEARCH_DAYS_LE
    /\ CandidatesEvaluated = SEARCH_DAYS_LE * SlotsPerDay

(***************************************************************************)
(* Two requests of POST /api/suggestions/generate at once: each request    *)
(* has its own session (get_db), reads the committed rows when its rules   *)
(* run and adds its rows at its commit                                     *)
(***************************************************************************)
Sessions == {1, 2}
IdleSession == [stage |-> "idle", user_id |-> 0, new |-> <<>>]

\* a three-hour block of user 1 today, a block tomorrow, another user's block
ConcurrentEvents == {e \in RulesEvents : e.id \in {1, 3, 6}}

\* generate_suggestions_for_user up to the commit of the new rows: the
\* cleanup is committed, the three rules have read the store and the
\* session holds what they built
RunRules(session, user_id, tie) ==
    /\ tcall[session].stage = "idle"
    /\ suggestions' = cleanup_expired_suggestions(suggestions, now, user_id)
    /\ tcall' = [tcall EXCEPT ![session] =
           [stage |-> "checked", user_id |-> user_id,
            new |-> check_break_rule(events, suggestions', now, user_id, now, tie)
                      \o check_balance_rule(events, suggestions', now, user_id, now, tie)
                      \o check_postponement_rule(events, suggestions', now, user_id, tie)]]
    /\ UNCHANGED <<travel_cache, events, result, now, next_id, last>>

\* db.add for each suggestion and db.commit of the session
CommitRows(session) ==
    /\ tcall[session].stage = "checked"
    /\ LET r == commit_suggestions(suggestions,
                    stored_rows(tcall[session].new, next_id, now), next_id)
       IN  /\ suggestions' = r.suggestions
           /\ next_id' = r.next_id
    /\ tcall' = [tcall EXCEPT ![session] = IdleSession]
    /\ UNCHANGED <<travel_cache, events, result, now, last>>

InitConcurrent ==
    /\ travel_cache = EmptyCache
    /\ tcall = [session \in Sessions |-> IdleSession]
    /\ events = {}
    /\ result = NoCall
    /\ suggestions = {}
    /\ now = StartOfClock
    /\ next_id = 1
    /\ last = NoCall

NextConcurrent ==
    \/ \E e \in ConcurrentEvents : CreateEvent(e)
    \/ \E e \in ConcurrentEvents : DeleteEvent(e)
    \/ \E session \in Sessions, user_id \in Users, tie \in {"lo", "hi"} :
           RunRules(session, user_id, tie)
    \/ \E session \in Sessions : CommitRows(session)

SpecConcurrent == InitConcurrent /\ [][NextConcurrent]_vars

\* the deduplication key of a stored suggestion
DedupKey(s) ==
    <<s.user_id, s.type, DateOf(s.created_at),
      IF s.type = "move_event" THEN s.related_event_id ELSE Nothing>>

\* C36: whatever the interleaving of two generate calls, the store holds at
\* most one pending suggestion per deduplication key
C36_OnePendingPerKeyUnderInterleaving ==
    \A s1 \in suggestions, s2 \in suggestions :
        ( /\ s1.status = "pending" /\ s2.status = "pending"
          /\ DedupKey(s1) = DedupKey(s2) )
        => s1 = s2

(***************************************************************************)
(* Two users on one store                                                  *)
(***************************************************************************)
\* user 1: a located three-hour block and a located event half an hour
\* later in another city; user 2: a located three-hour block
TwoUserEvents ==
    { [RuleEvent(1, 1, At(0, 8, 0), At(0, 11, 0), 3, FALSE, 0, 0)
          EXCEPT !.location = LocOfficeA],
      Event(2, 1, At(0, 11, 30), At(0, 12, 30), LocParis),
      [RuleEvent(6, 2, At(0, 9, 0), At(0, 12, 0), 3, FALSE, 0, 0)
          EXCEPT !.location = LocNear] }

TwoUserRequests ==
    { Request(user_id, 60, At(0, 9, 0), "medium", LocNear, NoConstraint, 1, "lo") :
        user_id \in Users }

\* the events of both users are stored before the first call
InitTwoUsers ==
    /\ travel_cache = EmptyCache
    /\ tcall = NoCall
    /\ events = TwoUserEvents
    /\ result = NoCall
    /\ suggestions = {}
    /\ now = StartOfClock
    /\ next_id = 1
    /\ last = NoCall

NextTwoUsers ==
    \/ \E user_id \in Users :
           result.op = "none" /\ GenerateSuggestions(user_id, Nothing, "lo")
    \/ \E user_id \in Users :
           result.op = "none" /\ GetSuggestions(user_id, Nothing, "lo")
    \/ \E s \in suggestions, user_id \in Users :
           result.op = "none" /\ UpdateSuggestionStatus(s.id, user_id, "accepted")
    \/ ReturnSuggestions
    \/ result.op = "none" /\ Tick
    \/ \E rq \in TwoUserRequests : last.op = "none" /\ FindBestSlot(rq)
    \/ \E user_id \in Users :
           last.op = "none" /\ DetectTravelConflicts(user_id, At(0, 12, 0), "lo")
    \/ ReturnResult

SpecTwoUsers == InitTwoUsers /\ [][NextTwoUsers]_vars

\* the rows of a store that belong to a user, and the suggestions that do not
OwnRows(rows, user_id) == {r \in rows : r.user_id = user_id}
OtherSuggestions(sugs, user_id) == {s \in sugs : s.user_id /= user_id}

\* the call of the step gave what it gives on the store of its user's rows
\* alone, and left the suggestions of the other users as they were
SameAsAlone ==
    /\ (result.op = "none" /\ result'.op = "find_best_slot") =>
           result'.res =
               find_best_slot(OwnRows(events, result'.rq.user_id),
                              travel_cache, result'.rq).result
    /\ (result.op = "none" /\ result'.op = "detect_travel_conflicts") =>
           result'.conflicts =
               detect_travel_conflicts(OwnRows(events, result'.user_id),
                   travel_cache, result'.user_id, result'.date,
                   result'.tie).conflicts
    /\ (last.op = "none" /\ last'.op = "generate") =>
           last'.returned =
               generate_suggestions_for_user(
                   OwnRows(events, last'.user_id),
                   OwnRows(suggestions, last'.user_id), now, next_id,
                   last'.user_id, last'.date, "lo").returned
    /\ (last.op = "none" /\ last'.op = "get_suggestions") =>
           last'.returned =
               get_suggestions(OwnRows(suggestions, last'.user_id), now,
                               last'.user_id, last'.status, "lo").returned
    /\ (last.op = "none" /\ last'.op = "update_suggestion_status") =>
           last'.returned =
               get_suggestion_by_id(
                   update_suggestion_status(
                       OwnRows(suggestions, last'.user_id),
                       last'.suggestion_id, last'.user_id, last'.status),
                   last'.suggestion_id, last'.user_id)
    /\ (last.op = "none" /\ last'.op /= "none") =>
           OtherSuggestions(suggestions', last'.user_id)
               = OtherSuggestions(suggestions, last'.user_id)
    /\ (result.op = "none" /\ result'.op /= "none") =>
           suggestions' = suggestions

\* C38: an operation run for one user returns what it returns when the
\* store holds that user's events and suggestions only, and changes no
\* suggestion of another user
C38_OtherUsersRowsNeitherReadNorChanged == [][SameAsAlone]_vars

\* user 1 was given a new suggestion while user 2 has an event and a
\* pending suggestion
C38_GeneratedBesideOtherUsersRows ==
    /\ Generated
    /\ last.user_id = 1
    /\ last.returned /= <<>>
    /\ \E e \in events : e.user_id = 2
    /\ \E s \in suggestions : s.user_id = 2 /\ s.status = "pending"

\* C39: a slot found by the bounded search starts no earlier than
\* preferred_start
C39_SearchedSlotNotBeforePreferred ==
    (Searched /\ result.res.success) =>
        result.res.scheduled_time[1] >= result.rq.preferred_start

\* a pending suggestion whose expiry is behind time t
PendingPastExpiry(s, t) == s.status = "pending" /\ s.expires_at < t

\* a generate or a list call was made in the step, and every suggestion
\* stored before it is stored unchanged after it, but for pending ones past
\* their expiry, which may have become expired with all other fields kept
StoredRowsKept ==
    (last.op = "none" /\ last'.op \in {"generate", "get_suggestions"}) =>
        \A s \in suggestions :
            \/ s \in suggestions'
            \/ /\ PendingPastExpiry(s, now)
               /\ [s EXCEPT !.status = "expired"] \in suggestions'

\* C40: get_active_suggestions and generate_suggestions_for_user change no
\* stored suggestion, except that pending suggestions past their expiry
\* become expired
C40_OnlyPendingPastExpiryChange == [][StoredRowsKept]_vars

\* the active suggestions were listed once the expiry had passed: a pending
\* suggestion of the caller has become expired and an accepted one of the
\* same age is still accepted
C40_ListedAfterExpiryBesideAccepted ==
    /\ ListedActive
    /\ \E s \in suggestions :
           /\ s.user_id = last.user_id
           /\ s.status = "accepted"
           /\ s.expires_at < now
    /\ \E s \in suggestions :
           /\ s.user_id = last.user_id
           /\ s.status = "expired"

=============================================================================
